---- MODULE Spec2Model ----
(***************************************************************************)
(* Verification model of the leanix-tutorials custom reports.              *)
(*                                                                         *)
(* Each tutorial is a single Vue component; each gets its own group of     *)
(* variables, its own actions and its own specification:                   *)
(*   Spec08  tutorial 08, cursor pagination (src/unnamed/part_001)         *)
(*   Spec03  tutorial 03, average completion chart                         *)
(*           (src/tutorial-06/src/App.vue, lines 185-303)                  *)
(*   Spec02  tutorial 02, facets vs GraphQL (src/tutorial-02/src/App.vue)  *)
(*   Spec05  tutorial 05, array methods (src/tutorial-05/src/App.vue)      *)
(*   Spec06  tutorial 06, Business Model Canvas                            *)
(*           (src/tutorial-06/src/App.vue, lines 1-126)                    *)
(*   Spec07  tutorial 07, obsolescence report                              *)
(*           (src/tutorial-07/src/App.vue)                                 *)
(*   Spec04  tutorial 04, lifecycle matrix (src/tutorial-04/src/App.vue)   *)
(* SpecSpinner runs the reports of tutorials 03 and 05 side by side,       *)
(* SpecExport the edits and exports of tutorial 06, and SpecAverages       *)
(* applies the averages of tutorials 02, 03 and 05 to one list.            *)
(***************************************************************************)
EXTENDS Integers, Sequences, FiniteSets, Bags, TLC

(***************************************************************************)
(* Bounds of the model.                                                    *)
(***************************************************************************)
\* number of page-size changes the user makes in one behaviour
MaxResets == 1
\* number of one-second clock ticks in one behaviour
MaxTicks == 2
\* number of fact sheets of one type in the workspace
MaxEdges == 2
\* number of fact sheet types the user selects in the configuration modal
MaxSelections == 2
\* number of filter changes the user makes on the facets
MaxFilterChanges == 2
\* number of files the user selects while the FileReaders of earlier
\* selections are still reading
MaxReaders == 2
\* number of changes the user makes to the dates of the obsolescence report
MaxDateEdits == 2

(***************************************************************************)
(* The state of the reports, one group of variables per tutorial.          *)
(***************************************************************************)
\* tutorial 08 (src/unnamed/part_001)
VARIABLES
  pageSize, endCursor, totalFactSheetCount, downloadedFactSheetCount,
  completionRatio, timeToFirstResults, totalDownloadingTime,
  factSheetsPerSecond, t0, timer,
  \* the environment: requests awaiting lx.executeGraphQL, performance.now(),
  \* the interval timers the browser runs, the ids setInterval has given out,
  \* and the number of fact sheets of the workspace
  inflight, now, activeTimers, timerSeq, datasetSize,
  \* history: the number of resets so far, and what the response applied
  \* last said ("none" after a reset, "more" or "last")
  resets, lastApplied

stats08 == <<endCursor, totalFactSheetCount, downloadedFactSheetCount,
             completionRatio, timeToFirstResults, totalDownloadingTime,
             factSheetsPerSecond, t0, timer, activeTimers>>
vars08 == <<pageSize, stats08, inflight, now, timerSeq, datasetSize,
            resets, lastApplied>>

\* tutorial 03 (src/tutorial-06/src/App.vue, second component)
VARIABLES
  factSheetTypes, selectedFactSheetType, averageCompletion,
  \* the environment: whether lx.init has resolved, the queries awaiting
  \* lx.executeGraphQL, the calls of lx.showSpinner and lx.hideSpinner, and
  \* the completion ratios of the fact sheets of each type of the workspace
  initDone03, inflight03, shown03, hidden03, workspace03,
  \* history: the number of selections, the edges of the response stored
  \* last (NoEdges when none was), and the number of queries that rejected
  selections03, lastEdges03, rejected03,
  \* the holder of the chart (undefined, or one Chart with the number of its
  \* construction as id), and the number of Charts constructed
  chart, chartsCreated03

vars03 == <<factSheetTypes, selectedFactSheetType, averageCompletion,
            initDone03, inflight03, shown03, hidden03, workspace03,
            selections03, lastEdges03, rejected03, chart, chartsCreated03>>

\* tutorial 02 (src/tutorial-02/src/App.vue)
VARIABLES
  facetResultIndex, graphQLResultIndex,
  \* the environment: whether lx.init has resolved, the filter of each facet
  \* in the host, the facets whose data the host has still to deliver, the
  \* queries awaiting lx.executeGraphQL and the completion ratios of the fact
  \* sheets of each type of the workspace
  initDone02, hostFilter02, facetDirty02, inflight02, workspace02,
  \* history: the number of filter changes and of rejected queries, and the
  \* lists of fact sheets the results of each type were computed from
  filterChanges02, rejected02, facetInput02, graphQLInput02

vars02 == <<facetResultIndex, graphQLResultIndex, initDone02, hostFilter02,
            facetDirty02, inflight02, workspace02, filterChanges02,
            rejected02, facetInput02, graphQLInput02>>

\* tutorial 05 (src/tutorial-05/src/App.vue)
VARIABLES
  response, rows, columns, avgCompletion,
  \* the environment: whether lx.init has resolved, whether the query of
  \* fetchGraphQLData is awaiting lx.executeGraphQL, the calls of
  \* lx.showSpinner and lx.hideSpinner, and the applications of the workspace
  initDone05, pending05, shown05, hidden05, workspace05

vars05 == <<response, rows, columns, avgCompletion, initDone05, pending05,
            shown05, hidden05, workspace05>>

\* tutorial 06 (src/tutorial-06/src/App.vue, first component)
VARIABLES
  businessModelCanvasContent,
  \* the environment: the file saved last (none, or one file with the
  \* content it was saved from) and the files the FileReaders that have not
  \* fired onload yet are reading
  savedFile06, readers06,
  \* history: the content the file loaded last was saved from, until the
  \* next edit (none, or one content)
  restored06,
  \* history: whether JSON.parse has thrown in the load made last, until the
  \* next edit
  loadError06,
  \* the environment: the elements of the slide of the presentation written
  \* last, in the order of the calls that added them (none, or one list)
  slide06

vars06 == <<businessModelCanvasContent, savedFile06, readers06, restored06,
            loadError06, slide06>>

\* tutorial 07 (src/tutorial-07/src/App.vue)
VARIABLES
  reportSetup, itComponents, obsoleteITComponents, startDate, endDate,
  \* the environment: the data generateBarChart built last and the number
  \* of Chart instances attached to the canvas, whether the query of
  \* fetchDataset is awaiting lx.executeGraphQL, and the IT components of the
  \* workspace
  barChartData, charts07, fetchPending07, workspace07,
  \* history: the number of date changes, and how the run of
  \* computeObsolescencies of the last step that changed a watched ref
  \* ended ("none" before the first, "done", or the error it threw:
  \* "TypeError" on line 169, "CanvasInUse" on line 243)
  dateEdits07, lastRun07

vars07 == <<reportSetup, itComponents, obsoleteITComponents, startDate,
            endDate, barChartData, charts07, fetchPending07, workspace07,
            dateEdits07, lastRun07>>

\* tutorial 04 (src/tutorial-04/src/App.vue)
VARIABLES
  baseUrl, applications, applicationLifecyclePhases, headerRow, rows04,
  gridStyle,
  \* the environment: whether lx.init has resolved, the keys of the
  \* lifecycle phases of the view model of the workspace, and the links
  \* opened with lx.openLink
  initDone04, workspace04, openedLinks04,
  \* history: the number of datasets the facet has delivered
  facetUpdates04

vars04 == <<baseUrl, applications, applicationLifecyclePhases, headerRow,
            rows04, gridStyle, initDone04, workspace04, openedLinks04,
            facetUpdates04>>

\* the averages of the tutorials 02, 03 and 05 applied to one list of
\* completion ratios: the list, the value each computation has stored (the
\* initial value of its ref before), and the computations that have run
VARIABLES
  ratios, stored, applied

varsAvg == <<ratios, stored, applied>>

vars == <<vars08, vars03, vars02, vars05, vars06, vars07, vars04, varsAvg>>


(***************************************************************************)
(* JavaScript values.                                                      *)
(***************************************************************************)
\* null, for the refs that hold a number or null
Null == -1
\* the value NaN of a numeric expression (0 / 0)
NaN == -2
\* the value Infinity of a numeric expression (x / 0, x > 0)
Infinity == -3

\* a null operand of an arithmetic operator converts to 0
NullToZero(x) == IF x = Null THEN 0 ELSE x

\* Math.round(a / (b / 1000)) of lines 65, 70 and 87, given as
\* RoundDiv(a * 1000, b) for a count a >= 0 and a time b >= 0 that is a
\* multiple of 1000 ms: b / 1000 is an integer, the double of the quotient
\* lies on the same side of every half as the quotient itself, and
\* Math.round gives the nearest integer, halves up; a division by zero gives
\* Infinity, and 0 / 0 gives NaN
RoundDiv(a, b) ==
  IF b = 0 THEN (IF a = 0 THEN NaN ELSE Infinity)
  ELSE (2 * a + b) \div (2 * b)

(***************************************************************************)
(* The workspace shared by the reports that read completion ratios.        *)
(***************************************************************************)
\* a completion ratio c of the model stands for the number c / Scale
Scale == 10000

\* the sequences over S of length at most n
SeqUpTo(S, n) == UNION {[1..k -> S] : k \in 0..n}

\* the completion ratios of the fact sheets of the workspaces of tutorials
\* 02 and 03
CompletionValues == {2500, 7777}
\* the completion ratios of the applications of the workspaces of tutorial
\* 05: 5.04%, 9.99% (below the threshold, shown as 10.0%), the threshold
\* 10% and 75%
CompletionValues05 == {504, 999, 1000, 7500}

\* greatest common divisor of a >= 0 and b >= 0
RECURSIVE Gcd(_, _)
Gcd(a, b) == IF b = 0 THEN a ELSE Gcd(b, a % b)

\* the JavaScript number a / b for integers a >= 0, b >= 0, as a fraction in
\* lowest terms; 0 / 0 is NaN and x / 0 is Infinity
Number(a, b) ==
  IF b = 0
  THEN [kind |-> IF a = 0 THEN "NaN" ELSE "Infinity", num |-> 0, den |-> 1]
  ELSE [kind |-> "number", num |-> a \div Gcd(a, b), den |-> b \div Gcd(a, b)]

\* the value null of a ref that otherwise holds a number
NullNumber == [kind |-> "null", num |-> 0, den |-> 1]

\* Array.prototype.reduce((accumulator, x) => accumulator + x, init) over
\* the first k elements of the sequence of integers s
RECURSIVE ReduceSum(_, _, _)
ReduceSum(s, k, init) ==
  IF k = 0 THEN init ELSE ReduceSum(s, k - 1, init) + s[k]

\* base to the power n
RECURSIVE Pow(_, _)
Pow(base, n) == IF n = 0 THEN 1 ELSE base * Pow(base, n - 1)

(***************************************************************************)
(* JavaScript numbers: IEEE 754 doubles, for the arithmetic whose rounding *)
(* shows in the result of toFixed.                                         *)
(*                                                                         *)
(* A natural number beyond the range of the integers of the model is the   *)
(* sequence of its digits in base LimbBase, the least significant first,   *)
(* without a zero at the end. A finite double >= 0 is m * 2^e with m of 53 *)
(* bits, or zero (m empty).                                                *)
(***************************************************************************)
LimbBase == 32768
LimbBits == 15
\* the bits of the significand of a double
SignificandBits == 53

\* the number of bits of 0 <= x < LimbBase
RECURSIVE BitLength(_)
BitLength(x) == IF x = 0 THEN 0 ELSE 1 + BitLength(x \div 2)

\* the number of bits of n
BigBits(n) ==
  IF n = <<>> THEN 0
  ELSE LimbBits * (Len(n) - 1) + BitLength(n[Len(n)])

\* the digits of n * k + carry from digit i on, for 0 < k < LimbBase
RECURSIVE BigMul(_, _, _, _)
BigMul(n, k, i, carry) ==
  IF i > Len(n)
  THEN (IF carry = 0 THEN <<>> ELSE <<carry>>)
  ELSE LET v == n[i] * k + carry
       IN  <<v % LimbBase>> \o BigMul(n, k, i + 1, v \div LimbBase)

\* quotient and remainder of the digits of n from digit i on by
\* 0 < d < LimbBase
RECURSIVE BigDivMod(_, _, _)
BigDivMod(n, d, i) ==
  IF i > Len(n)
  THEN [q |-> <<>>, r |-> 0]
  ELSE LET hi == BigDivMod(n, d, i + 1)
           v == hi.r * LimbBase + n[i]
       IN  [q |-> IF hi.q = <<>> /\ v \div d = 0 THEN <<>>
                  ELSE <<v \div d>> \o hi.q,
            r |-> v % d]

\* the digits of a + b + carry from digit i on
RECURSIVE BigAdd(_, _, _, _)
BigAdd(a, b, i, carry) ==
  IF i > Len(a) /\ i > Len(b)
  THEN (IF carry = 0 THEN <<>> ELSE <<carry>>)
  ELSE LET v == (IF i <= Len(a) THEN a[i] ELSE 0)
                  + (IF i <= Len(b) THEN b[i] ELSE 0) + carry
       IN  <<v % LimbBase>> \o BigAdd(a, b, i + 1, v \div LimbBase)

\* n * 2^k
BigShiftLeft(n, k) ==
  IF n = <<>> THEN <<>>
  ELSE [i \in 1..(k \div LimbBits) |-> 0]
         \o BigMul(n, Pow(2, k % LimbBits), 1, 0)

\* n divided by 2^k, rounded down
BigShiftRight(n, k) ==
  IF k \div LimbBits >= Len(n) THEN <<>>
  ELSE BigDivMod(SubSeq(n, k \div LimbBits + 1, Len(n)),
                 Pow(2, k % LimbBits), 1).q

\* the double 0 (kind "number"), and NaN and Infinity
Double(kind) == [kind |-> kind, m |-> <<>>, e |-> 0]

\* the double nearest to N * 2^e, the even one of two nearest
RECURSIVE RoundBig(_, _)
RoundBig(N, e) ==
  LET b == BigBits(N)
  IN  IF N = <<>> THEN Double("number")
      ELSE IF b <= SignificandBits
      THEN [kind |-> "number", m |-> BigShiftLeft(N, SignificandBits - b),
            e |-> e - (SignificandBits - b)]
      ELSE LET k == b - SignificandBits
               t == BigShiftRight(N, k - 1)
               sticky == BigShiftLeft(t, k - 1) # N
               q == BigShiftRight(t, 1)
               up == t[1] % 2 = 1 /\ (sticky \/ q[1] % 2 = 1)
           IN  RoundBig(IF up THEN BigAdd(q, <<1>>, 1, 0) ELSE q, e + k)

\* the double nearest to (N / D) * 2^e, the even one of two nearest, for
\* N of at most 53 bits and 0 < D < LimbBase
RoundQuotient(N, D, e) ==
  IF N = <<>> THEN Double("number")
  ELSE LET k0 == SignificandBits - 1 - BigBits(N) + BitLength(D)
           x0 == BigDivMod(BigShiftLeft(N, k0), D, 1)
           k == IF BigBits(x0.q) < SignificandBits THEN k0 + 1 ELSE k0
           x == IF k = k0 THEN x0 ELSE BigDivMod(BigShiftLeft(N, k), D, 1)
           up == 2 * x.r > D \/ (2 * x.r = D /\ x.q[1] % 2 = 1)
       IN  RoundBig(IF up THEN BigAdd(x.q, <<1>>, 1, 0) ELSE x.q, e - k)

\* the double of the completion ratio c, which the response gives as the
\* decimal c / Scale
DoubleOfRatio(c) == RoundQuotient(IF c = 0 THEN <<>> ELSE <<c>>, Scale, 0)

\* x + y
DoubleAdd(x, y) ==
  IF x.m = <<>> THEN y
  ELSE IF y.m = <<>> THEN x
  ELSE LET e == IF x.e < y.e THEN x.e ELSE y.e
       IN  RoundBig(BigAdd(BigShiftLeft(x.m, x.e - e),
                           BigShiftLeft(y.m, y.e - e), 1, 0), e)

\* x / n for an integer 0 <= n < LimbBase: 0 / 0 is NaN and x / 0 Infinity
DoubleDiv(x, n) ==
  IF x.kind # "number" THEN x
  ELSE IF n = 0 THEN Double(IF x.m = <<>> THEN "NaN" ELSE "Infinity")
  ELSE RoundQuotient(x.m, n, x.e)

\* x * k for an integer 0 < k < LimbBase
DoubleMul(x, k) ==
  IF x.kind # "number" THEN x ELSE RoundBig(BigMul(x.m, k, 1, 0), x.e)

\* Array.prototype.reduce((accumulator, x) => accumulator + x, 0) over the
\* first k completion ratios of s
RECURSIVE ReduceDoubles(_, _)
ReduceDoubles(s, k) ==
  IF k = 0 THEN Double("number")
  ELSE DoubleAdd(ReduceDoubles(s, k - 1), DoubleOfRatio(s[k]))

\* the string x.toFixed(digits) + '%' of a double x < 2^52: the number of
\* units of 10^-digits nearest to x, the larger one of two nearest;
\* NaN.toFixed gives 'NaN'
ToFixedPercent(x, digits) ==
  IF x.kind # "number"
  THEN [kind |-> x.kind, units |-> 0, digits |-> digits]
  ELSE [kind |-> "number",
        units |->
          IF x.m = <<>> THEN 0
          ELSE LET t == BigShiftRight(BigMul(x.m, Pow(10, digits), 1, 0),
                                      -x.e - 1)
                   n == BigShiftRight(BigAdd(t, <<1>>, 1, 0), 1)
               IN  IF n = <<>> THEN 0
                   ELSE n[1] + (IF Len(n) > 1 THEN n[2] * LimbBase ELSE 0),
        digits |-> digits]

\* the string ((sum / count) * 100).toFixed(digits) + '%' for the sum of
\* the completion ratios of the list s and its length
AveragePercentOf(s, digits) ==
  LET completionSum == ReduceDoubles(s, Len(s))
  IN  ToFixedPercent(DoubleMul(DoubleDiv(completionSum, Len(s)), 100), digits)

\* AveragePercentOf for the lists of the workspaces of the model, with one
\* decimal and with two, each evaluated once
AveragePercents ==
  [p \in SeqUpTo(CompletionValues \cup CompletionValues05, MaxEdges + 1)
           \X {1, 2} |-> AveragePercentOf(p[1], p[2])] @@ <<>>

\* AveragePercentOf, looked up for the lists evaluated before
AveragePercent(s, digits) ==
  IF <<s, digits>> \in DOMAIN AveragePercents
  THEN AveragePercents[<<s, digits>>]
  ELSE AveragePercentOf(s, digits)

\* Math.round((a / b) * 100) of line 79 for integers 0 <= a < LimbBase^2 and
\* 0 <= b < LimbBase: the quotient and the product are rounded to doubles
\* before Math.round takes the nearest integer, halves up, so that
\* 2300 of 4000 gives 57 (57.49999999999999)
RoundPercent(a, b) ==
  LET digits == IF a = 0 THEN <<>>
                ELSE IF a < LimbBase THEN <<a>>
                ELSE <<a % LimbBase, a \div LimbBase>>
      x == DoubleMul(DoubleDiv(RoundBig(digits, 0), b), 100)
  IN  CASE x.kind = "NaN" -> NaN
        [] x.kind = "Infinity" -> Infinity
        [] OTHER -> ToFixedPercent(x, 0).units

\* RoundPercent for the counts and totals of the workspaces of 80 and of 250
\* fact sheets, each evaluated once
RoundPercents ==
  [p \in {10 * k : k \in 0..150} \X {80, 250} |->
     RoundPercent(p[1], p[2])] @@ <<>>

(***************************************************************************)
(* TUTORIAL 08: querying paginated data (src/unnamed/part_001).            *)
(***************************************************************************)
\* the page sizes with one above the default of $first added
pageSizes_Oversized == {100, 500, 1000, 15000, 20000}

\* the page sizes the user can select
pageSizes == {100, 500, 1000, 15000}
\* the default of the variable $first of the query, the largest page the
\* host serves
MaxPageSize == 15000
\* the interval of the timer, in milliseconds
TimerInterval == 1000

\* the call of lx.executeGraphQL that fetchPage awaits: the variables of the
\* query, the _t0 of the call and (history) the reset count when it was issued
Request(first, after, t, epoch) ==
  [first |-> first, after |-> after, t0 |-> t, epoch |-> epoch]

\* the host's answer to allFactSheets(first, after) over a workspace of size
\* fact sheets; a cursor is the number of fact sheets before the next page
AllFactSheets(size, first, after) ==
  LET start == IF after = Null THEN 0 ELSE after
      n == IF size - start < first THEN size - start ELSE first
  IN  [totalCount |-> size,
       hasNextPage |-> start + n < size,
       endCursor |-> IF n = 0 THEN Null ELSE start + n,
       edges |-> n]

\* the body of the interval callback at time t
TimerCallback(t) ==
  LET deltaT == t - NullToZero(t0)
  IN  /\ totalDownloadingTime' = deltaT
      /\ factSheetsPerSecond' =
           RoundDiv(NullToZero(downloadedFactSheetCount) * 1000, deltaT)

\* fetchPage after its await, when the response is not discarded: the values
\* of the refs after the rest of the function has run
FetchPageApply(req, result) ==
  LET deltaT == now - req.t0
      first == req.after = Null
      \* lines 56-72, the first page of the dataset
      t0A == IF first THEN req.t0 ELSE t0
      ttfrA == IF first THEN deltaT ELSE timeToFirstResults
      tdtA == IF first THEN deltaT ELSE totalDownloadingTime
      fpsA == IF first
              THEN RoundDiv(NullToZero(downloadedFactSheetCount) * 1000, deltaT)
              ELSE factSheetsPerSecond
      timerA == IF first THEN timerSeq + 1 ELSE timer
      activeA == IF first
                 THEN (activeTimers \ {timer}) \cup {timerSeq + 1}
                 ELSE activeTimers
      \* lines 74-79
      downloaded == NullToZero(downloadedFactSheetCount) + result.edges
      \* lines 81-88
      deltaT2 == now - NullToZero(t0A)
      last == result.hasNextPage = FALSE
  IN  [endCursor |-> IF last THEN endCursor ELSE result.endCursor,
       totalFactSheetCount |-> result.totalCount,
       downloadedFactSheetCount |-> downloaded,
       completionRatio |->
         IF <<downloaded, result.totalCount>> \in DOMAIN RoundPercents
         THEN RoundPercents[<<downloaded, result.totalCount>>]
         ELSE RoundPercent(downloaded, result.totalCount),
       timeToFirstResults |-> ttfrA,
       totalDownloadingTime |-> IF last THEN deltaT2 ELSE tdtA,
       factSheetsPerSecond |->
         IF last THEN RoundDiv(downloaded * 1000, deltaT2) ELSE fpsA,
       t0 |-> t0A,
       timer |-> timerA,
       activeTimers |-> IF last THEN activeA \ {timerA} ELSE activeA,
       timerSeq |-> IF first THEN timerSeq + 1 ELSE timerSeq,
       lastApplied |-> IF last THEN "last" ELSE "more"]

\* line 54: the response of req is discarded when the cursor has changed
\* since the request was issued
Discarded(req) == endCursor # req.after

\* WatchEndCursor of a component without the watcher of endCursor
WatchEndCursor_Never(old, new, ps, epoch) == EmptyBag

\* the requests the watcher of endCursor issues when a handler leaves the
\* cursor at new after it was old: one call of fetchPage if it changed, with
\* the page size ps and the reset count epoch of that moment
WatchEndCursor(old, new, ps, epoch) ==
  IF new # old THEN SetToBag({Request(ps, new, now, epoch)}) ELSE EmptyBag

\* the state after the setup of the component, in a workspace whose number
\* of fact sheets is one of sizes: the immediate watcher of endCursor has
\* called fetchPage once
Init08(sizes) ==
  /\ pageSize = 100
  /\ endCursor = Null
  /\ totalFactSheetCount = Null
  /\ downloadedFactSheetCount = Null
  /\ completionRatio = Null
  /\ timeToFirstResults = Null
  /\ totalDownloadingTime = Null
  /\ factSheetsPerSecond = Null
  /\ t0 = Null
  /\ timer = Null
  /\ now = 0
  /\ activeTimers = {}
  /\ timerSeq = 0
  /\ datasetSize \in sizes
  /\ resets = 0
  /\ lastApplied = "none"
  /\ inflight = SetToBag({Request(100, Null, 0, 0)})

\* ChangePageSize with a reset that leaves the interval timer running
ChangePageSize_KeepsTimer(p) ==
  /\ p # pageSize
  /\ resets < MaxResets
  /\ pageSize' = p
  /\ resets' = resets + 1
  /\ endCursor' = Null
  /\ totalFactSheetCount' = Null
  /\ downloadedFactSheetCount' = Null
  /\ completionRatio' = Null
  /\ timeToFirstResults' = Null
  /\ totalDownloadingTime' = Null
  /\ factSheetsPerSecond' = Null
  /\ t0' = Null
  /\ activeTimers' = activeTimers
  /\ timer' = Null
  /\ lastApplied' = "none"
  /\ inflight' = inflight
       (+) SetToBag({Request(p, Null, now, resets + 1)})
       (+) WatchEndCursor(endCursor, Null, p, resets + 1)
  /\ UNCHANGED <<now, timerSeq, datasetSize>>
  /\ UNCHANGED <<vars03, vars02, vars05, vars06,
                 vars07, vars04, varsAvg>>

\* the user selects another page size: the watcher of pageSize runs reset,
\* which calls fetchPage, and then the watcher of endCursor runs
ChangePageSize(p) ==
  /\ p # pageSize
  /\ resets < MaxResets
  /\ pageSize' = p
  /\ resets' = resets + 1
  /\ endCursor' = Null
  /\ totalFactSheetCount' = Null
  /\ downloadedFactSheetCount' = Null
  /\ completionRatio' = Null
  /\ timeToFirstResults' = Null
  /\ totalDownloadingTime' = Null
  /\ factSheetsPerSecond' = Null
  /\ t0' = Null
  /\ activeTimers' = activeTimers \ {timer}
  /\ timer' = Null
  /\ lastApplied' = "none"
  /\ inflight' = inflight
       (+) SetToBag({Request(p, Null, now, resets + 1)})
       (+) WatchEndCursor(endCursor, Null, p, resets + 1)
  /\ UNCHANGED <<now, timerSeq, datasetSize>>
  /\ UNCHANGED <<vars03, vars02, vars05, vars06,
                 vars07, vars04, varsAvg>>

\* the response of a request arrives and fetchPage resumes
Deliver(req) ==
  /\ BagIn(req, inflight)
  /\ LET result == AllFactSheets(datasetSize, req.first, req.after)
         rest == inflight (-) SetToBag({req})
     IN  IF Discarded(req)
         THEN /\ inflight' = rest
              /\ UNCHANGED <<stats08, timerSeq, lastApplied>>
         ELSE LET s == FetchPageApply(req, result)
              IN  /\ endCursor' = s.endCursor
                  /\ totalFactSheetCount' = s.totalFactSheetCount
                  /\ downloadedFactSheetCount' = s.downloadedFactSheetCount
                  /\ completionRatio' = s.completionRatio
                  /\ timeToFirstResults' = s.timeToFirstResults
                  /\ totalDownloadingTime' = s.totalDownloadingTime
                  /\ factSheetsPerSecond' = s.factSheetsPerSecond
                  /\ t0' = s.t0
                  /\ timer' = s.timer
                  /\ activeTimers' = s.activeTimers
                  /\ timerSeq' = s.timerSeq
                  /\ lastApplied' = s.lastApplied
                  /\ inflight' = rest
                       (+) WatchEndCursor(endCursor, s.endCursor, pageSize, resets)
  /\ UNCHANGED <<pageSize, now, datasetSize, resets>>
  /\ UNCHANGED <<vars03, vars02, vars05, vars06,
                 vars07, vars04, varsAvg>>

\* a second passes; every running interval timer calls its callback
Tick ==
  /\ now < MaxTicks * TimerInterval
  /\ now' = now + TimerInterval
  /\ IF activeTimers # {}
     THEN TimerCallback(now + TimerInterval)
     ELSE UNCHANGED <<totalDownloadingTime, factSheetsPerSecond>>
  /\ UNCHANGED <<pageSize, endCursor, totalFactSheetCount,
                 downloadedFactSheetCount, completionRatio, timeToFirstResults,
                 t0, timer, activeTimers, timerSeq, datasetSize, inflight,
                 resets, lastApplied>>
  /\ UNCHANGED <<vars03, vars02, vars05, vars06,
                 vars07, vars04, varsAvg>>

Next08 ==
  \/ \E p \in pageSizes : ChangePageSize(p)
  \/ \E req \in BagToSet(inflight) : Deliver(req)
  \/ Tick

(***************************************************************************)
(* TUTORIAL 03: average completion of the selected fact sheet type         *)
(* (src/tutorial-06/src/App.vue, second component, lines 185-303).         *)
(***************************************************************************)
\* Object.keys(setup.settings.dataModel.factSheets) of the workspace
WorkspaceTypes == <<"Application", "ITComponent">>
TypeSet == {WorkspaceTypes[i] : i \in 1..Len(WorkspaceTypes)}
\* the value null of a ref that otherwise holds a fact sheet type
NullType == "null"
\* marks that no response has been stored
NoEdges == <<-1>>

\* the edges the host returns for allFactSheets(factSheetType: t): the
\* completion ratio of each node
QueryEdges03(t) == workspace03[t]

\* AverageCompletion03 with the sum started at the first edge's value
\* instead of 0 (reduce seeded with an element that is then added again)
AverageCompletion03_SeedBug(edges) ==
  LET seed == IF edges = <<>> THEN 0 ELSE edges[1]
      completionSum == ReduceSum(edges, Len(edges), seed)
      factSheetCount == Len(edges)
  IN  Number(completionSum, factSheetCount * Scale)

\* the .then callback of fetchGraphQLData: the average of the completion
\* ratios of the edges
AverageCompletion03(edges) ==
  LET completionSum == ReduceSum(edges, Len(edges), 0)
      factSheetCount == Len(edges)
  IN  Number(completionSum, factSheetCount * Scale)

\* the calls of fetchGraphQLData the watcher of selectedFactSheetType makes
\* when a handler leaves the type at new after it was old
WatchSelectedFactSheetType(old, new) ==
  IF new # old THEN SetToBag({[factSheetType |-> new]}) ELSE EmptyBag

\* 1 - value: null converts to 0, and 1 - NaN is NaN
Complement(value) ==
  CASE value.kind = "number" -> Number(value.den - value.num, value.den)
    [] value.kind = "null" -> Number(1, 1)
    [] OTHER -> value

\* gradient.rgbAt(value).toHexString()
RgbAt(value) == <<"rgbAt", value>>

\* UpdateChart that constructs a Chart on every call
UpdateChart_AlwaysNew(value) ==
  LET data == <<value, Complement(value)>>
      backgroundColor == <<RgbAt(value), <<"rgba(0, 0, 0, 0.1)">>>>
  IN  /\ chart' = <<[id |-> chartsCreated03 + 1,
                     datasets |-> <<[data |-> data,
                                     backgroundColor |-> backgroundColor]>>]>>
      /\ chartsCreated03' = chartsCreated03 + 1

\* updateChart, run with averageCompletion.value = value
UpdateChart(value) ==
  LET data == <<value, Complement(value)>>
      backgroundColor == <<RgbAt(value), <<"rgba(0, 0, 0, 0.1)">>>>
  IN  IF chart = <<>>
      THEN /\ chart' = <<[id |-> chartsCreated03 + 1,
                          datasets |-> <<[data |-> data,
                                          backgroundColor |-> backgroundColor]>>]>>
           /\ chartsCreated03' = chartsCreated03 + 1
      ELSE /\ chart' = <<[chart[1] EXCEPT
                            !.datasets[1] =
                               [data |-> data,
                                backgroundColor |-> backgroundColor]]>>
           /\ UNCHANGED chartsCreated03

\* the watcher of averageCompletion calls updateChart when a handler leaves
\* in it a value new that is not the value old it held
WatchAverageCompletion(old, new) ==
  IF new # old
  THEN UpdateChart(new)
  ELSE UNCHANGED <<chart, chartsCreated03>>

\* the state after the setup of the component, in one of the workspaces
Init03(workspaces) ==
  /\ factSheetTypes = <<>>
  /\ selectedFactSheetType = NullType
  /\ averageCompletion = NullNumber
  /\ initDone03 = FALSE
  /\ inflight03 = EmptyBag
  /\ shown03 = 0
  /\ hidden03 = 0
  /\ workspace03 \in workspaces
  /\ selections03 = 0
  /\ lastEdges03 = NoEdges
  /\ rejected03 = 0
  /\ chart = <<>>
  /\ chartsCreated03 = 0

\* lx.init resolves: initializeReport stores the types and selects the first
\* one, and the watcher calls fetchGraphQLData
InitializeReport03 ==
  /\ ~initDone03
  /\ initDone03' = TRUE
  /\ factSheetTypes' = WorkspaceTypes
  /\ LET first == IF Len(WorkspaceTypes) > 0 THEN WorkspaceTypes[1] ELSE NullType
         calls == WatchSelectedFactSheetType(selectedFactSheetType, first)
     IN  /\ selectedFactSheetType' = first
         /\ inflight03' = inflight03 (+) calls
         /\ shown03' = shown03 + BagCardinality(calls)
  /\ UNCHANGED <<averageCompletion, hidden03, workspace03, selections03,
                 lastEdges03, rejected03, chart, chartsCreated03>>
  /\ UNCHANGED <<vars08, vars02, vars05, vars06,
                 vars07, vars04, varsAvg>>

\* the user picks the type t in the configuration modal
\* (openReportConfigurationModal), and the watcher calls fetchGraphQLData
SelectFactSheetType(t) ==
  /\ initDone03
  /\ selections03 < MaxSelections
  /\ t # selectedFactSheetType
  /\ selections03' = selections03 + 1
  /\ LET calls == WatchSelectedFactSheetType(selectedFactSheetType, t)
     IN  /\ selectedFactSheetType' = t
         /\ inflight03' = inflight03 (+) calls
         /\ shown03' = shown03 + BagCardinality(calls)
  /\ UNCHANGED <<factSheetTypes, averageCompletion, initDone03, hidden03,
                 workspace03, lastEdges03, rejected03, chart,
                 chartsCreated03>>
  /\ UNCHANGED <<vars08, vars02, vars05, vars06,
                 vars07, vars04, varsAvg>>

\* the query q resolves: fetchGraphQLData stores the average and hides the
\* spinner, and the watcher of averageCompletion runs
Resolve03(q) ==
  /\ BagIn(q, inflight03)
  /\ inflight03' = inflight03 (-) SetToBag({q})
  /\ averageCompletion' = AverageCompletion03(QueryEdges03(q.factSheetType))
  /\ WatchAverageCompletion(averageCompletion,
                            AverageCompletion03(QueryEdges03(q.factSheetType)))
  /\ lastEdges03' = QueryEdges03(q.factSheetType)
  /\ hidden03' = hidden03 + 1
  /\ UNCHANGED <<factSheetTypes, selectedFactSheetType, initDone03, shown03,
                 workspace03, selections03, rejected03>>
  /\ UNCHANGED <<vars08, vars02, vars05, vars06,
                 vars07, vars04, varsAvg>>

\* Reject03 of a fetchGraphQLData without the finally block
Reject03_NoFinally(q) ==
  /\ BagIn(q, inflight03)
  /\ inflight03' = inflight03 (-) SetToBag({q})
  /\ rejected03' = rejected03 + 1
  /\ UNCHANGED <<factSheetTypes, selectedFactSheetType, averageCompletion,
                 initDone03, shown03, hidden03, workspace03, selections03,
                 lastEdges03, chart, chartsCreated03>>
  /\ UNCHANGED <<vars08, vars02, vars05, vars06,
                 vars07, vars04, varsAvg>>

\* the query q rejects, or its .then callback throws on a response without
\* allFactSheets: the await throws and fetchGraphQLData only hides the
\* spinner
Reject03(q) ==
  /\ BagIn(q, inflight03)
  /\ inflight03' = inflight03 (-) SetToBag({q})
  /\ hidden03' = hidden03 + 1
  /\ rejected03' = rejected03 + 1
  /\ UNCHANGED <<factSheetTypes, selectedFactSheetType, averageCompletion,
                 initDone03, shown03, workspace03, selections03, lastEdges03,
                 chart, chartsCreated03>>
  /\ UNCHANGED <<vars08, vars02, vars05, vars06,
                 vars07, vars04, varsAvg>>

Next03 ==
  \/ InitializeReport03
  \/ \E t \in TypeSet : SelectFactSheetType(t)
  \/ \E q \in BagToSet(inflight03) : Resolve03(q)
  \/ \E q \in BagToSet(inflight03) : Reject03(q)

(***************************************************************************)
(* TUTORIAL 02: facets vs GraphQL (src/tutorial-02/src/App.vue).           *)
(***************************************************************************)
\* the filters the user can set on a facet: none, the fact sheets less than
\* half complete, and a search term that matches nothing
Filters == {"all", "incomplete", "nothing"}
Matches(filter, completion) ==
  CASE filter = "all" -> TRUE
    [] filter = "incomplete" -> 2 * completion < Scale
    [] OTHER -> FALSE

\* the fact sheets of type t that pass the filter, as the host returns them
\* to the facet and to allFactSheets(filter: $filter)
Filtered02(t, filter) ==
  SelectSeq(workspace02[t], LAMBDA c : Matches(filter, c))

\* lx.translateFactSheetType(factSheetType, 'plural')
TranslateFactSheetType(t, grammaticalNumber) == <<t, grammaticalNumber>>

\* the value null of an entry of a result index
NullResult ==
  [label |-> <<NullType, NullType>>, factSheetCount |-> Null,
   averageCompletion |-> [kind |-> "null", units |-> 0, digits |-> 0]]

\* FacetCallback with the average rounded to one decimal
FacetCallback_OneDecimal(t, factSheets) ==
  LET factSheetCount == Len(factSheets)
  IN  [label |-> TranslateFactSheetType(t, "plural"),
       factSheetCount |-> factSheetCount,
       averageCompletion |->
         LET r == AveragePercent(factSheets, 1)
         IN  [r EXCEPT !.units = 10 * r.units, !.digits = 2]]

\* the record the callback of the facet of type t stores for factSheets
FacetCallback(t, factSheets) ==
  LET factSheetCount == Len(factSheets)
  IN  [label |-> TranslateFactSheetType(t, "plural"),
       factSheetCount |-> factSheetCount,
       averageCompletion |-> AveragePercent(factSheets, 2)]

\* the record fetchGraphQLData returns for the edges of the response: the
\* edges are mapped to their nodes first
FetchGraphQLData(t, edges) ==
  LET factSheets == [i \in 1..Len(edges) |-> edges[i].node]
      factSheetCount == Len(factSheets)
      completions == [i \in 1..Len(factSheets) |->
                        factSheets[i].completion.completion]
  IN  [label |-> TranslateFactSheetType(t, "plural"),
       factSheetCount |-> factSheetCount,
       averageCompletion |-> AveragePercent(completions, 2)]

\* the response of allFactSheets(filter: $filter) { edges { node {
\* completion { completion } } } } for the fact sheets of a list
Edges02(factSheets) ==
  [i \in 1..Len(factSheets) |->
     [node |-> [completion |-> [completion |-> factSheets[i]]]]]

\* marks that no list has been processed
NoList == <<-1>>

\* the state after the setup of the component, in one of the workspaces
Init02(workspaces) ==
  /\ facetResultIndex = [t \in TypeSet |-> NullResult]
  /\ graphQLResultIndex = [t \in TypeSet |-> NullResult]
  /\ initDone02 = FALSE
  /\ hostFilter02 = [t \in TypeSet |-> "all"]
  /\ facetDirty02 = [t \in TypeSet |-> FALSE]
  /\ inflight02 = EmptyBag
  /\ workspace02 \in workspaces
  /\ filterChanges02 = 0
  /\ rejected02 = 0
  /\ facetInput02 = [t \in TypeSet |-> NoList]
  /\ graphQLInput02 = [t \in TypeSet |-> NoList]

\* lx.init resolves: initializeReport sets every entry of graphQLResultIndex
\* to null and registers one facet per type; the host then loads each facet
InitializeReport02 ==
  /\ ~initDone02
  /\ initDone02' = TRUE
  /\ graphQLResultIndex' = [t \in TypeSet |-> NullResult]
  /\ facetDirty02' = [t \in TypeSet |-> TRUE]
  /\ UNCHANGED <<facetResultIndex, hostFilter02, inflight02, workspace02,
                 filterChanges02, rejected02, facetInput02, graphQLInput02>>
  /\ UNCHANGED <<vars08, vars03, vars05, vars06,
                 vars07, vars04, varsAvg>>

\* the user sets the filter of the facet of type t: the host calls
\* facetFiltersChangedCallback, which calls fetchGraphQLData and awaits it
FacetFiltersChanged(t, filter) ==
  /\ initDone02
  /\ filterChanges02 < MaxFilterChanges
  /\ filter # hostFilter02[t]
  /\ filterChanges02' = filterChanges02 + 1
  /\ hostFilter02' = [hostFilter02 EXCEPT ![t] = filter]
  /\ facetDirty02' = [facetDirty02 EXCEPT ![t] = TRUE]
  /\ inflight02' = inflight02 (+) SetToBag({[factSheetType |-> t, filter |-> filter]})
  /\ UNCHANGED <<facetResultIndex, graphQLResultIndex, initDone02,
                 workspace02, rejected02, facetInput02, graphQLInput02>>
  /\ UNCHANGED <<vars08, vars03, vars05, vars06,
                 vars07, vars04, varsAvg>>

\* the host delivers the fact sheets of the facet of type t to its callback
FacetUpdated(t) ==
  /\ initDone02
  /\ facetDirty02[t]
  /\ facetDirty02' = [facetDirty02 EXCEPT ![t] = FALSE]
  /\ LET factSheets == Filtered02(t, hostFilter02[t])
     IN  /\ facetResultIndex' =
              [facetResultIndex EXCEPT ![t] = FacetCallback(t, factSheets)]
         /\ facetInput02' = [facetInput02 EXCEPT ![t] = factSheets]
  /\ UNCHANGED <<graphQLResultIndex, initDone02, hostFilter02, inflight02,
                 workspace02, filterChanges02, rejected02, graphQLInput02>>
  /\ UNCHANGED <<vars08, vars03, vars05, vars06,
                 vars07, vars04, varsAvg>>

\* the query q resolves: facetFiltersChangedCallback stores the record
\* fetchGraphQLData returns
Resolve02(q) ==
  /\ BagIn(q, inflight02)
  /\ inflight02' = inflight02 (-) SetToBag({q})
  /\ LET factSheets == Filtered02(q.factSheetType, q.filter)
     IN  /\ graphQLResultIndex' =
              [graphQLResultIndex EXCEPT ![q.factSheetType] =
                 FetchGraphQLData(q.factSheetType, Edges02(factSheets))]
         /\ graphQLInput02' = [graphQLInput02 EXCEPT ![q.factSheetType] = factSheets]
  /\ UNCHANGED <<facetResultIndex, initDone02, hostFilter02, facetDirty02,
                 workspace02, filterChanges02, rejected02, facetInput02>>
  /\ UNCHANGED <<vars08, vars03, vars05, vars06,
                 vars07, vars04, varsAvg>>

\* the query q rejects: the callback throws and stores nothing
Reject02(q) ==
  /\ BagIn(q, inflight02)
  /\ inflight02' = inflight02 (-) SetToBag({q})
  /\ rejected02' = rejected02 + 1
  /\ UNCHANGED <<facetResultIndex, graphQLResultIndex, initDone02,
                 hostFilter02, facetDirty02, workspace02, filterChanges02,
                 facetInput02, graphQLInput02>>
  /\ UNCHANGED <<vars08, vars03, vars05, vars06,
                 vars07, vars04, varsAvg>>

Next02 ==
  \/ InitializeReport02
  \/ \E t \in TypeSet, filter \in Filters : FacetFiltersChanged(t, filter)
  \/ \E t \in TypeSet : FacetUpdated(t)
  \/ \E q \in BagToSet(inflight02) : Resolve02(q)
  \/ \E q \in BagToSet(inflight02) : Reject02(q)

(***************************************************************************)
(* TUTORIAL 05: array methods (src/tutorial-05/src/App.vue).               *)
(***************************************************************************)
\* the threshold of the filter of mapResponseToRows, 0.1, in units of 1/Scale
CompletionThreshold == 1000
\* response holds null or a response: the empty sequence, or the sequence of
\* that one response
NullResponse == <<>>
\* the initial value 'n/a' of avgCompletion
NotAvailable == [kind |-> "n/a", units |-> 0, digits |-> 0]

\* a response has allFactSheets; on one without, mapResponseToRows throws
WellFormed(resp) == "allFactSheets" \in DOMAIN resp

\* the response of the query: one edge per application, named by its
\* position in the workspace
Response05(completions) ==
  [allFactSheets |->
     [edges |-> [i \in 1..Len(completions) |->
        [node |-> [name |-> i,
                   completion |-> [completion |-> completions[i]]]]]]]

\* lx.translateField('Application', key)
TranslateField(type, key) == <<type, key>>

\* computeTableColumns
ComputeTableColumns ==
  LET columnKeys == <<"name", "completion">>
  IN  [i \in 1..Len(columnKeys) |->
         [key |-> columnKeys[i],
          label |-> TranslateField("Application", columnKeys[i])]]

\* MapRows with a filter that also keeps the rows at the threshold
MapRows_Inclusive(resp) ==
  LET edges == resp.allFactSheets.edges
      mapped == [i \in 1..Len(edges) |->
                   [name |-> edges[i].node.name,
                    completion |->
                      ToFixedPercent(
                        DoubleMul(DoubleOfRatio(
                                    edges[i].node.completion.completion), 100),
                        1),
                    completionValue |-> edges[i].node.completion.completion]]
  IN  SelectSeq(mapped, LAMBDA row : row.completionValue <= CompletionThreshold)

\* the map and filter steps of mapResponseToRows
MapRows(resp) ==
  LET edges == resp.allFactSheets.edges
      mapped == [i \in 1..Len(edges) |->
                   [name |-> edges[i].node.name,
                    completion |->
                      ToFixedPercent(
                        DoubleMul(DoubleOfRatio(
                                    edges[i].node.completion.completion), 100),
                        1),
                    completionValue |-> edges[i].node.completion.completion]]
  IN  SelectSeq(mapped, LAMBDA row : row.completionValue < CompletionThreshold)

\* AvgCompletion that leaves 'n/a' in place when no row is left
AvgCompletion_KeepsInitial(rowsValue) ==
  IF rowsValue = <<>>
  THEN NotAvailable
  ELSE AveragePercent([i \in 1..Len(rowsValue) |->
                         rowsValue[i].completionValue], 1)

\* the reduce step of mapResponseToRows: the average over rows.value
AvgCompletion(rowsValue) ==
  AveragePercent([i \in 1..Len(rowsValue) |-> rowsValue[i].completionValue],
                 1)

\* the state after the setup of the component, in a workspace whose
\* applications are one of workspaces: initializeReport awaits lx.init, and
\* fetchGraphQLData has shown the spinner and awaits its query
Init05(workspaces) ==
  /\ response = NullResponse
  /\ rows = <<>>
  /\ columns = <<>>
  /\ avgCompletion = NotAvailable
  /\ initDone05 = FALSE
  /\ pending05 = TRUE
  /\ shown05 = 1
  /\ hidden05 = 0
  /\ workspace05 \in workspaces

\* lx.init resolves and initializeReport calls lx.ready
InitializeReport05 ==
  /\ ~initDone05
  /\ initDone05' = TRUE
  /\ UNCHANGED <<response, rows, columns, avgCompletion, pending05, shown05,
                 hidden05, workspace05>>
  /\ UNCHANGED <<vars08, vars03, vars02, vars06,
                 vars07, vars04, varsAvg>>

\* the query resolves: fetchGraphQLData stores the response, calls
\* mapResponseToRows and hides the spinner
Resolve05 ==
  /\ pending05
  /\ pending05' = FALSE
  /\ response' = <<Response05(workspace05)>>
  /\ rows' = MapRows(Response05(workspace05))
  /\ columns' = ComputeTableColumns
  /\ avgCompletion' = AvgCompletion(MapRows(Response05(workspace05)))
  /\ hidden05' = hidden05 + 1
  /\ UNCHANGED <<initDone05, shown05, workspace05>>
  /\ UNCHANGED <<vars08, vars03, vars02, vars06,
                 vars07, vars04, varsAvg>>

\* the query resolves with a response without allFactSheets:
\* fetchGraphQLData stores it, mapResponseToRows throws a TypeError on line
\* 46 and the finally block hides the spinner
ResolveMalformed05 ==
  /\ pending05
  /\ pending05' = FALSE
  /\ response' = <<[errors |-> <<"error">>]>>
  /\ hidden05' = hidden05 + 1
  /\ UNCHANGED <<rows, columns, avgCompletion, initDone05, shown05,
                 workspace05>>
  /\ UNCHANGED <<vars08, vars03, vars02, vars06,
                 vars07, vars04, varsAvg>>

\* the query rejects: fetchGraphQLData only hides the spinner
Reject05 ==
  /\ pending05
  /\ pending05' = FALSE
  /\ hidden05' = hidden05 + 1
  /\ UNCHANGED <<response, rows, columns, avgCompletion, initDone05, shown05,
                 workspace05>>
  /\ UNCHANGED <<vars08, vars03, vars02, vars06,
                 vars07, vars04, varsAvg>>

Next05 ==
  \/ InitializeReport05
  \/ Resolve05
  \/ ResolveMalformed05
  \/ Reject05

(***************************************************************************)
(* TUTORIAL 06: Business Model Canvas (src/tutorial-06/src/App.vue, first  *)
(* component, lines 1-126).                                                *)
(*                                                                         *)
(* A text is a sequence of characters. An object is the sequence of its    *)
(* entries [key, value] in insertion order. A file is the sequence of its  *)
(* characters; the characters of a key, which needs no escaping, are kept  *)
(* together as one token.                                                  *)
(***************************************************************************)
\* the keys of the fields of the canvas the model edits
FieldKeys == <<"keyPartners", "keyActivities">>
\* the texts the user types into a field: nothing, or a quote, a backslash
\* and a letter
Texts == {<<>>, <<"\"", "\\", "n">>}
\* a file that is not valid JSON
InvalidFile == <<"{", "\"">>

\* the index of the entry of key in the object, 0 when it has none
RECURSIVE IndexOfKey(_, _, _)
IndexOfKey(object, key, i) ==
  IF i > Len(object) THEN 0
  ELSE IF object[i].key = key THEN i
  ELSE IndexOfKey(object, key, i + 1)

\* object[key] = value: an own key keeps its place, a new key is appended
SetProperty(object, key, value) ==
  LET i == IndexOfKey(object, key, 1)
  IN  IF i = 0 THEN Append(object, [key |-> key, value |-> value])
      ELSE [object EXCEPT ![i] = [key |-> key, value |-> value]]

\* Escape with the quotes escaped and the backslashes written as they are
RECURSIVE EscapeQuotesOnly(_)
EscapeQuotesOnly(text) ==
  IF text = <<>> THEN <<>>
  ELSE (IF Head(text) = "\"" THEN <<"\\", "\"">> ELSE <<Head(text)>>)
         \o EscapeQuotesOnly(Tail(text))

\* the characters of the JSON string literal of a text, without the quotes,
\* as JSON.stringify writes them
RECURSIVE Escape(_)
Escape(text) ==
  IF text = <<>> THEN <<>>
  ELSE (CASE Head(text) = "\"" -> <<"\\", "\"">>
          [] Head(text) = "\\" -> <<"\\", "\\">>
          [] Head(text) = "\n" -> <<"\\", "n">>
          [] OTHER -> <<Head(text)>>) \o Escape(Tail(text))

\* the members of an object from entry i on, as JSON.stringify(value, null,
\* 2) writes them: one per line, indented by two spaces, separated by commas
RECURSIVE StringifyMembers(_, _)
StringifyMembers(object, i) ==
  IF i > Len(object) THEN <<>>
  ELSE <<"\n", " ", " ", "\"", object[i].key, "\"", ":", " ", "\"">>
         \o Escape(object[i].value) \o <<"\"">>
         \o (IF i < Len(object) THEN <<",">> ELSE <<>>)
         \o StringifyMembers(object, i + 1)

\* JSON.stringify(object, null, 2)
Stringify(object) ==
  IF object = <<>> THEN <<"{", "}">>
  ELSE <<"{">> \o StringifyMembers(object, 1) \o <<"\n", "}">>

\* the result of a parsing step: whether it succeeded, what it read and the
\* position after it
Parsed(ok, value, next) == [ok |-> ok, value |-> value, next |-> next]
SyntaxError == Parsed(FALSE, <<>>, 0)

\* the position of the first character at or after i that is not white space
RECURSIVE SkipWhiteSpace(_, _)
SkipWhiteSpace(file, i) ==
  IF i <= Len(file) /\ file[i] \in {" ", "\n"}
  THEN SkipWhiteSpace(file, i + 1) ELSE i

\* the rest of a string literal from position i, after the characters acc
RECURSIVE ParseCharacters(_, _, _)
ParseCharacters(file, i, acc) ==
  IF i > Len(file) THEN SyntaxError
  ELSE IF file[i] = "\"" THEN Parsed(TRUE, acc, i + 1)
  ELSE IF file[i] = "\n" THEN SyntaxError
  ELSE IF file[i] = "\\"
       THEN IF i + 1 > Len(file) THEN SyntaxError
            ELSE IF file[i + 1] \in {"\"", "\\"}
                 THEN ParseCharacters(file, i + 2, Append(acc, file[i + 1]))
            ELSE IF file[i + 1] = "n"
                 THEN ParseCharacters(file, i + 2, Append(acc, "\n"))
            ELSE SyntaxError
  ELSE ParseCharacters(file, i + 1, Append(acc, file[i]))

\* a string literal at position i
ParseString(file, i) ==
  IF i <= Len(file) /\ file[i] = "\""
  THEN ParseCharacters(file, i + 1, <<>>) ELSE SyntaxError

\* the members of an object from position i (the start of a member), after
\* the entries acc; a key is a string of one token
RECURSIVE ParseMembers(_, _, _)
ParseMembers(file, i, acc) ==
  LET key == ParseString(file, i)
      colon == SkipWhiteSpace(file, key.next)
      value == ParseString(file, SkipWhiteSpace(file, colon + 1))
      after == SkipWhiteSpace(file, value.next)
  IN  IF ~key.ok \/ Len(key.value) # 1 THEN SyntaxError
      ELSE IF colon > Len(file) \/ file[colon] # ":" THEN SyntaxError
      ELSE IF ~value.ok THEN SyntaxError
      ELSE IF after > Len(file) THEN SyntaxError
      ELSE IF file[after] = "}"
           THEN Parsed(TRUE, SetProperty(acc, key.value[1], value.value), after + 1)
      ELSE IF file[after] = ","
           THEN ParseMembers(file, SkipWhiteSpace(file, after + 1),
                             SetProperty(acc, key.value[1], value.value))
      ELSE SyntaxError

\* JSON.parse of a file that holds an object of strings: the object, or a
\* SyntaxError
Parse(file) ==
  LET open == SkipWhiteSpace(file, 1)
      first == SkipWhiteSpace(file, open + 1)
      object == IF open > Len(file) \/ file[open] # "{" THEN SyntaxError
                ELSE IF first <= Len(file) /\ file[first] = "}"
                     THEN Parsed(TRUE, <<>>, first + 1)
                ELSE ParseMembers(file, first, <<>>)
  IN  IF object.ok /\ SkipWhiteSpace(file, object.next) > Len(file)
      THEN object ELSE SyntaxError

\* the state after the setup of the component: the content is the object
\* given to ref, and nothing is saved or being read
Init06(object) ==
  /\ businessModelCanvasContent = object
  /\ savedFile06 = <<>>
  /\ readers06 = EmptyBag
  /\ restored06 = <<>>
  /\ loadError06 = FALSE
  /\ slide06 = <<>>

\* the user types text into the textarea of the field key (v-model)
EditField(key, text) ==
  /\ businessModelCanvasContent' =
       SetProperty(businessModelCanvasContent, key, text)
  /\ restored06' = <<>>
  /\ loadError06' = FALSE
  /\ UNCHANGED <<savedFile06, readers06>>
  /\ UNCHANGED slide06
  /\ UNCHANGED <<vars08, vars03, vars02, vars05,
                 vars07, vars04, varsAvg>>

\* the user clicks Save: saveFile downloads the stringified content
SaveFile ==
  /\ savedFile06' = <<[text |-> Stringify(businessModelCanvasContent),
                       content |-> businessModelCanvasContent]>>
  /\ UNCHANGED <<businessModelCanvasContent, readers06, restored06,
                 loadError06>>
  /\ UNCHANGED slide06
  /\ UNCHANGED <<vars08, vars03, vars02, vars05,
                 vars07, vars04, varsAvg>>

\* the change event of the Load input arrives without a file: onFileChange
\* returns on line 28
OnFileChangeNoFile ==
  /\ UNCHANGED vars06
  /\ UNCHANGED <<vars08, vars03, vars02, vars05,
                 vars07, vars04, varsAvg>>

\* the user selects a file in the Load input: onFileChange starts a
\* FileReader on it
OnFileChange(file) ==
  /\ BagCardinality(readers06) < MaxReaders
  /\ readers06' = readers06 (+) SetToBag({file})
  /\ UNCHANGED <<businessModelCanvasContent, savedFile06, restored06,
                 loadError06>>
  /\ UNCHANGED slide06
  /\ UNCHANGED <<vars08, vars03, vars02, vars05,
                 vars07, vars04, varsAvg>>

\* Object.assign(object, source) from entry i of source on
RECURSIVE Assign(_, _, _)
Assign(object, source, i) ==
  IF i > Len(source) THEN object
  ELSE Assign(SetProperty(object, source[i].key, source[i].value), source, i + 1)

\* ReaderOnLoad with an onload that merges the file into the content
ReaderOnLoad_Merge(file) ==
  /\ BagIn(file, readers06)
  /\ readers06' = readers06 (-) SetToBag({file})
  /\ LET parsed == Parse(file.text)
     IN  IF parsed.ok
         THEN /\ businessModelCanvasContent' =
                   Assign(businessModelCanvasContent, parsed.value, 1)
              /\ restored06' = <<file.content>>
              /\ loadError06' = FALSE
         ELSE /\ loadError06' = TRUE
              /\ UNCHANGED <<businessModelCanvasContent, restored06>>
  /\ UNCHANGED savedFile06
  /\ UNCHANGED slide06
  /\ UNCHANGED <<vars08, vars03, vars02, vars05,
                 vars07, vars04, varsAvg>>

\* ReaderOnLoad with an onload that empties the content when JSON.parse
\* throws
ReaderOnLoad_ClearsOnError(file) ==
  /\ BagIn(file, readers06)
  /\ readers06' = readers06 (-) SetToBag({file})
  /\ LET parsed == Parse(file.text)
     IN  IF parsed.ok
         THEN /\ businessModelCanvasContent' = parsed.value
              /\ restored06' = <<file.content>>
              /\ loadError06' = FALSE
         ELSE /\ loadError06' = TRUE
              /\ businessModelCanvasContent' = <<>>
              /\ UNCHANGED restored06
  /\ UNCHANGED savedFile06
  /\ UNCHANGED slide06
  /\ UNCHANGED <<vars08, vars03, vars02, vars05,
                 vars07, vars04, varsAvg>>

\* the FileReader has read its file: onload parses it and replaces the
\* content; a SyntaxError of JSON.parse leaves the content as it is
ReaderOnLoad(file) ==
  /\ BagIn(file, readers06)
  /\ readers06' = readers06 (-) SetToBag({file})
  /\ LET parsed == Parse(file.text)
     IN  IF parsed.ok
         THEN /\ businessModelCanvasContent' = parsed.value
              /\ restored06' = <<file.content>>
              /\ loadError06' = FALSE
         ELSE /\ loadError06' = TRUE
              /\ UNCHANGED <<businessModelCanvasContent, restored06>>
  /\ UNCHANGED savedFile06
  /\ UNCHANGED slide06
  /\ UNCHANGED <<vars08, vars03, vars02, vars05,
                 vars07, vars04, varsAvg>>

\* the files the user can select are the file saved last and a file that
\* is not valid JSON
Next06 ==
  \/ \E i \in 1..Len(FieldKeys), text \in Texts : EditField(FieldKeys[i], text)
  \/ SaveFile
  \/ \E file \in {savedFile06[i] : i \in 1..Len(savedFile06)}
                    \cup {[text |-> InvalidFile, content |-> <<>>]} :
       OnFileChange(file)
  \/ OnFileChangeNoFile
  \/ \E file \in BagToSet(readers06) : ReaderOnLoad(file)

\* the labels of the fields of FieldKeys
FieldLabels == <<"Key Partners", "Key Activities">>

\* the value of the textarea of the field key: v-model shows the property
\* of the content, and nothing when the content has none
TextareaValue(object, key) ==
  IF IndexOfKey(object, key, 1) = 0
  THEN <<>>
  ELSE object[IndexOfKey(object, key, 1)].value

\* a section of a field: the normalized bounding box of an element (named
\* by the element), the line and text options, and the text (none, or one
\* string)
Section(el, line, textOpts, text) ==
  [bbox |-> el, line |-> line, textOpts |-> textOpts, text |-> text]

\* FieldSections with a content section that has no text when the textarea
\* is empty
FieldSections_NoTextWhenEmpty(object) ==
  [i \in 1..Len(FieldKeys) |->
     LET key == FieldKeys[i]
         value == TextareaValue(object, key)
     IN  <<Section(<<"field", key>>, <<"line">>, <<>>, <<>>),
           Section(<<"field-label", key>>, <<>>, <<"bold">>,
                   <<<<FieldLabels[i]>>>>),
           Section(<<"field-content", key>>, <<>>, <<"regular">>,
                   IF value = <<>> THEN <<>> ELSE <<value>>)>>]

\* lines 69-100: for each element marked 'field' of the container, in
\* document order, the sections of its container, its label and its
\* content
FieldSections(object) ==
  [i \in 1..Len(FieldKeys) |->
     LET key == FieldKeys[i]
         value == TextareaValue(object, key)
     IN  <<Section(<<"field", key>>, <<"line">>, <<>>, <<>>),
           Section(<<"field-label", key>>, <<>>, <<"bold">>,
                   <<<<FieldLabels[i]>>>>),
           Section(<<"field-content", key>>, <<>>, <<"regular">>,
                   <<value>>)>>]

\* lines 110-118: the call a section makes on the slide: addText when its
\* text is a string, addShape otherwise
SlideElement(section) ==
  [call |-> IF section.text # <<>> THEN "addText" ELSE "addShape",
   text |-> section.text,
   opts |-> [bbox |-> section.bbox, line |-> section.line,
             textOpts |-> section.textOpts]]

\* lines 106-119: the elements the sections of the first k fields add to
\* the slide
RECURSIVE PopulateSlide(_, _)
PopulateSlide(fields, k) ==
  IF k = 0 THEN <<>>
  ELSE PopulateSlide(fields, k - 1)
         \o [j \in 1..Len(fields[k]) |-> SlideElement(fields[k][j])]

\* the user clicks Export to PPT: exportToPPT writes a presentation of one
\* slide
ExportToPPT ==
  /\ LET fields == FieldSections(businessModelCanvasContent)
     IN  slide06' = <<PopulateSlide(fields, Len(fields))>>
  /\ UNCHANGED <<businessModelCanvasContent, savedFile06, readers06,
                 restored06, loadError06>>
  /\ UNCHANGED <<vars08, vars03, vars02, vars05,
                 vars07, vars04, varsAvg>>

\* the steps of a session of editing and exporting, with three more texts
\* to type
NextExport ==
  \/ \E i \in 1..Len(FieldKeys),
        text \in Texts \cup {<<"a">>, <<"\"">>, <<"\\">>} :
       EditField(FieldKeys[i], text)
  \/ ExportToPPT

(***************************************************************************)
(* TUTORIAL 07: obsolescence report (src/tutorial-07/src/App.vue).         *)
(*                                                                         *)
(* A date 'YYYY-MM-DD' is the number of its day; the string of a cleared   *)
(* date input is NoDate, which moment parses to an invalid date.           *)
(***************************************************************************)
\* the days of the model
Dates == 1..3
\* the value '' of a date input the user has cleared
NoDate == 0
\* the value null of reportSetup, and the setup lx.init resolves with
NullSetup == "null"
ReportSetup == "setup"
\* the category null of an IT component, as the key of an object property
NullCategory == "null"
\* lx.translateFieldValue('ITComponent', 'category', category)
TranslateFieldValue ==
  [category \in {"hardware", "software"} |->
     IF category = "hardware" THEN "Hardware" ELSE "Software"]

\* a phase of a lifecycle; a phase without start date has startDate = Null
Phase(phase, date) == [phase |-> phase, startDate |-> date]

\* the IT components of the workspaces of the model, without their id: a
\* lifecycle is none (null) or one list of phases
ITComponentKinds ==
  {[category |-> NullCategory, lifecycle |-> <<>>],
   [category |-> "hardware", lifecycle |-> <<<<Phase("active", 1)>>>>],
   [category |-> "software",
    lifecycle |-> <<<<Phase("active", 1), Phase("endOfLife", Null)>>>>],
   [category |-> "hardware",
    lifecycle |-> <<<<Phase("active", 1), Phase("endOfLife", 1)>>>>],
   [category |-> NullCategory,
    lifecycle |-> <<<<Phase("active", 1), Phase("endOfLife", 2)>>>>],
   [category |-> "hardware",
    lifecycle |-> <<<<Phase("endOfLife", 2)>>>>],
   [category |-> "software",
    lifecycle |-> <<<<Phase("active", 2), Phase("endOfLife", 3)>>>>]}

\* data.allFactSheets.edges.map(({ node }) => node) of a workspace: the id
\* of a node is its place in the workspace
Nodes(kinds) ==
  [i \in 1..Len(kinds) |->
     [id |-> i, category |-> kinds[i].category,
      lifecycle |-> kinds[i].lifecycle]]

\* phases.findIndex(({ phase }) => phase === name) from place i on, 0 when
\* there is none
RECURSIVE FindPhase(_, _, _)
FindPhase(phases, name, i) ==
  IF i > Len(phases) THEN 0
  ELSE IF phases[i].phase = name THEN i
  ELSE FindPhase(phases, name, i + 1)

\* lines 177-180: the start date of the endOfLife phase of an IT component,
\* Null when the reducer returns before line 181
ObsolescenceDate(itComponent) ==
  IF itComponent.lifecycle = <<>> THEN Null
  ELSE LET phases == itComponent.lifecycle[1]
           i == FindPhase(phases, "endOfLife", 1)
       IN  IF i = 0 THEN Null ELSE phases[i].startDate

\* IsBetween with both ends of the range included
IsBetween_Inclusive(date, from, to) ==
  /\ from # NoDate
  /\ to # NoDate
  /\ from <= date
  /\ date <= to

\* moment(date).isBetween(from, to): after from and before to; a comparison
\* with an invalid date is false
IsBetween(date, from, to) ==
  /\ from # NoDate
  /\ to # NoDate
  /\ from < date
  /\ date < to

\* lines 174-191: the reduce over the first k IT components
RECURSIVE ReduceObsolete(_, _, _, _)
ReduceObsolete(components, k, from, to) ==
  IF k = 0 THEN <<>>
  ELSE LET accumulator == ReduceObsolete(components, k - 1, from, to)
           itComponent == components[k]
           obsolescenceDate == ObsolescenceDate(itComponent)
           label == IF itComponent.category = NullCategory
                    THEN "Not defined"
                    ELSE TranslateFieldValue[itComponent.category]
       IN  IF obsolescenceDate # Null
              /\ IsBetween(obsolescenceDate, from, to)
           THEN Append(accumulator,
                       [id |-> itComponent.id,
                        category |-> [key |-> itComponent.category,
                                      label |-> label],
                        obsolescenceDate |-> obsolescenceDate])
           ELSE accumulator

\* x inserted into the sorted list s after the elements that are not later
InsertByDate(s, x) ==
  LET n == Cardinality({i \in 1..Len(s) :
                          s[i].obsolescenceDate <= x.obsolescenceDate})
  IN  SubSeq(s, 1, n) \o <<x>> \o SubSeq(s, n + 1, Len(s))

\* line 192: the first k elements of s sorted by ascending obsolescence
\* date, elements of the same date in the order of s
RECURSIVE SortByDate(_, _)
SortByDate(s, k) ==
  IF k = 0 THEN <<>> ELSE InsertByDate(SortByDate(s, k - 1), s[k])

\* the place of the bar of a category key in the bars from place i on
RECURSIVE IndexOfBar(_, _, _)
IndexOfBar(bars, key, i) ==
  IF i > Len(bars) THEN 0
  ELSE IF bars[i].key = key THEN i
  ELSE IndexOfBar(bars, key, i + 1)

\* CategoryIndex without the lookup of the bar of the category: one bar per
\* obsolete component
RECURSIVE CategoryIndex_BarPerComponent(_, _)
CategoryIndex_BarPerComponent(obsolete, k) ==
  IF k = 0 THEN <<>>
  ELSE LET accumulator == CategoryIndex_BarPerComponent(obsolete, k - 1)
           category == obsolete[k].category
       IN  Append(accumulator,
                  [key |-> category.key, label |-> category.label,
                   count |-> 1])

\* generateBarChart: the labels and data of the chart, one bar per category
\* key of the first k obsolete components, in the order of Object.keys
RECURSIVE CategoryIndex(_, _)
CategoryIndex(obsolete, k) ==
  IF k = 0 THEN <<>>
  ELSE LET accumulator == CategoryIndex(obsolete, k - 1)
           category == obsolete[k].category
           i == IndexOfBar(accumulator, category.key, 1)
       IN  IF i = 0
           THEN Append(accumulator,
                       [key |-> category.key, label |-> category.label,
                        count |-> 1])
           ELSE [accumulator EXCEPT ![i].count = @ + 1]

\* ComputeObsolescencies with a constructor that attaches a Chart to the
\* canvas whether or not the canvas holds one
ComputeObsolescencies_AttachesAgain(components, from, to) ==
  IF reportSetup = NullSetup
  THEN /\ lastRun07' = "TypeError"
       /\ UNCHANGED <<obsoleteITComponents, barChartData, charts07>>
  ELSE LET reduced == ReduceObsolete(components, Len(components), from, to)
           obsolete == SortByDate(reduced, Len(reduced))
       IN  /\ obsoleteITComponents' = obsolete
           /\ barChartData' = CategoryIndex(obsolete, Len(obsolete))
           /\ charts07' = charts07 + 1
           /\ lastRun07' = "done"

\* the watcher of startDate, endDate and itComponents runs
\* computeObsolescencies on the values the step leaves in them: line 169
\* throws a TypeError while reportSetup is null. Otherwise
\* obsoleteITComponents is assigned, generateBarChart builds the data of the
\* bars and calls new Chart(barChart.value, ...) on line 243: the Chart of
\* 'chart.js/auto' (line 121; Chart.js 3 and later) attaches to a canvas
\* that holds no chart and throws the Error 'Canvas is already in use' on a
\* canvas that holds one, which stays attached. charts07 is the number of
\* Chart instances attached to the canvas
ComputeObsolescencies(components, from, to) ==
  IF reportSetup = NullSetup
  THEN /\ lastRun07' = "TypeError"
       /\ UNCHANGED <<obsoleteITComponents, barChartData, charts07>>
  ELSE LET reduced == ReduceObsolete(components, Len(components), from, to)
           obsolete == SortByDate(reduced, Len(reduced))
       IN  /\ obsoleteITComponents' = obsolete
           /\ barChartData' = CategoryIndex(obsolete, Len(obsolete))
           /\ IF charts07 = 0
              THEN /\ charts07' = 1
                   /\ lastRun07' = "done"
              ELSE /\ charts07' = charts07
                   /\ lastRun07' = "CanvasInUse"

\* the state after the setup of the component, in a workspace whose IT
\* components are one of workspaces: initializeReport awaits lx.init and
\* fetchDataset awaits its query; startDate is today and endDate the end of
\* the next month
Init07(workspaces) ==
  /\ reportSetup = NullSetup
  /\ itComponents = <<>>
  /\ obsoleteITComponents = <<>>
  /\ startDate = 1
  /\ endDate = 3
  /\ barChartData = <<>>
  /\ charts07 = 0
  /\ fetchPending07 = TRUE
  /\ workspace07 \in workspaces
  /\ dateEdits07 = 0
  /\ lastRun07 = "none"

\* lx.init resolves: initializeReport stores the setup
InitializeReport07 ==
  /\ reportSetup = NullSetup
  /\ reportSetup' = ReportSetup
  /\ UNCHANGED <<itComponents, obsoleteITComponents, startDate, endDate,
                 barChartData, charts07, fetchPending07, workspace07,
                 dateEdits07, lastRun07>>
  /\ UNCHANGED <<vars08, vars03, vars02, vars05,
                 vars06, vars04, varsAvg>>

\* the query of fetchDataset resolves: itComponents is a new array
ResolveFetch07 ==
  /\ fetchPending07
  /\ fetchPending07' = FALSE
  /\ itComponents' = Nodes(workspace07)
  /\ ComputeObsolescencies(Nodes(workspace07), startDate, endDate)
  /\ UNCHANGED <<reportSetup, startDate, endDate, workspace07, dateEdits07>>
  /\ UNCHANGED <<vars08, vars03, vars02, vars05,
                 vars06, vars04, varsAvg>>

\* the query of fetchDataset rejects
RejectFetch07 ==
  /\ fetchPending07
  /\ fetchPending07' = FALSE
  /\ UNCHANGED <<reportSetup, itComponents, obsoleteITComponents, startDate,
                 endDate, barChartData, charts07, workspace07, dateEdits07,
                 lastRun07>>
  /\ UNCHANGED <<vars08, vars03, vars02, vars05,
                 vars06, vars04, varsAvg>>

\* the user changes the start date
SetStartDate(date) ==
  /\ date # startDate
  /\ dateEdits07 < MaxDateEdits
  /\ dateEdits07' = dateEdits07 + 1
  /\ startDate' = date
  /\ ComputeObsolescencies(itComponents, date, endDate)
  /\ UNCHANGED <<reportSetup, itComponents, endDate, fetchPending07,
                 workspace07>>
  /\ UNCHANGED <<vars08, vars03, vars02, vars05,
                 vars06, vars04, varsAvg>>

\* the user changes the end date
SetEndDate(date) ==
  /\ date # endDate
  /\ dateEdits07 < MaxDateEdits
  /\ dateEdits07' = dateEdits07 + 1
  /\ endDate' = date
  /\ ComputeObsolescencies(itComponents, startDate, date)
  /\ UNCHANGED <<reportSetup, itComponents, startDate, fetchPending07,
                 workspace07>>
  /\ UNCHANGED <<vars08, vars03, vars02, vars05,
                 vars06, vars04, varsAvg>>

Next07 ==
  \/ InitializeReport07
  \/ ResolveFetch07
  \/ RejectFetch07
  \/ \E date \in Dates \cup {NoDate} : SetStartDate(date)
  \/ \E date \in Dates \cup {NoDate} : SetEndDate(date)

(***************************************************************************)
(* TUTORIAL 04: lifecycle matrix (src/tutorial-04/src/App.vue).            *)
(*                                                                         *)
(* applicationLifecyclePhases is the list of its keys in the order of      *)
(* Object.keys; the colours of a phase are named by the key of the phase.  *)
(* A cell is [key, type, label, style]: the key `${id}_${key}` is the pair *)
(* [id, phase], and style names the phase whose colours the cell takes     *)
(* ("" for a cell without style).                                          *)
(***************************************************************************)
\* the view models of the workspaces of the model
LifecycleViewModels == {<<"active">>, <<"plan", "active", "endOfLife">>}
\* reportSetup.settings.baseUrl
WorkspaceUrl == "https://host/workspace"
\* the value null of a type or a label
NullString == "null"
\* lx.translateFieldValue('Application', 'lifecycle', key)
TranslateLifecycle ==
  [key \in {"plan", "active", "endOfLife"} |->
     CASE key = "plan" -> "Plan"
       [] key = "active" -> "Active"
       [] OTHER -> "End of life"]

\* the applications of the workspaces of the model; a lifecycle is none
\* (null) or one [asString, phases], and asString is the current phase. The
\* facet delivers them whatever the view model of the report holds: in a
\* workspace whose view model has the phase active alone, endOfLife is not
\* one of its keys
Applications04 ==
  LET App(id, name, lifecycle) ==
        [id |-> id, type |-> "Application", name |-> name,
         lifecycle |-> lifecycle]
  IN  {App(1, "App A", <<>>),
       App(2, "App B",
           <<[asString |-> "active", phases |-> <<Phase("active", 1)>>]>>),
       App(3, "App C",
           <<[asString |-> "endOfLife",
              phases |-> <<Phase("active", 1), Phase("endOfLife", 2)>>]>>),
       App(4, "App D",
           <<[asString |-> "active",
              phases |-> <<Phase("active", 1), Phase("active", Null)>>]>>)}

\* the datasets the facet can deliver: lists of up to n different
\* applications
Datasets04(n) ==
  {d \in SeqUpTo(Applications04, n) :
     \A i, j \in 1..Len(d) : i # j => d[i] # d[j]}

\* a cell of the matrix
Cell(id, phase, type, label, style) ==
  [key |-> [id |-> id, phase |-> phase], type |-> type, label |-> label,
   style |-> style]

\* lines 82-85 and 89: phases[key] || null after the reduce over the first
\* k phases, where a later phase of the same name replaces an earlier one
RECURSIVE PhaseStartDate(_, _, _)
PhaseStartDate(phases, key, k) ==
  IF k = 0 THEN Null
  ELSE IF phases[k].phase = key THEN phases[k].startDate
  ELSE PhaseStartDate(phases, key, k - 1)

\* lines 52-62: the header row for the phases keys
HeaderRow(keys) ==
  <<Cell(0, "pivot-cell", NullString, NullString, "")>>
    \o [i \in 1..Len(keys) |->
          Cell(0, keys[i], NullString, TranslateLifecycle[keys[i]], keys[i])]

\* lines 67-96: the row of an application, for the phases keys of the view
\* model. For an application with a lifecycle, line 81 destructures
\* applicationLifecyclePhases.value[asString], which is undefined when
\* asString is not a key of the view model: a TypeError (ok is FALSE)
ComputeRow(application, keys) ==
  IF application.lifecycle = <<>>
  THEN [ok |-> TRUE,
        cells |->
          <<Cell(application.id, "", application.type, application.name, "")>>
            \o [i \in 1..Len(keys) |->
                  Cell(application.id, keys[i], NullString, Null, "")]]
  ELSE LET lifecycle == application.lifecycle[1]
       IN  IF \A i \in 1..Len(keys) : keys[i] # lifecycle.asString
           THEN [ok |-> FALSE, cells |-> <<>>]
           ELSE [ok |-> TRUE,
                 cells |->
                   <<Cell(application.id, "", application.type,
                          application.name, lifecycle.asString)>>
                     \o [i \in 1..Len(keys) |->
                           Cell(application.id, keys[i], NullString,
                                PhaseStartDate(lifecycle.phases, keys[i],
                                               Len(lifecycle.phases)),
                                IF keys[i] = lifecycle.asString
                                THEN lifecycle.asString ELSE "")]]

\* computeRows on the applications the step leaves in the ref; gridStyle is
\* the number of columns it repeats. headerRow and gridStyle are assigned
\* first; when the callback of the map throws for an application, the
\* assignment to rows.value on line 66 is not made and rows keeps the rows
\* of the dataset before
ComputeRows(dataset) ==
  LET computed == [i \in 1..Len(dataset) |->
                     ComputeRow(dataset[i], applicationLifecyclePhases)]
  IN  /\ headerRow' = HeaderRow(applicationLifecyclePhases)
      /\ gridStyle' = Len(HeaderRow(applicationLifecyclePhases)) - 1
      /\ rows04' = IF \A i \in 1..Len(dataset) : computed[i].ok
                   THEN [i \in 1..Len(dataset) |-> computed[i].cells]
                   ELSE rows04

\* the state after the setup of the component, in a workspace whose view
\* model is one of viewModels: initializeReport awaits lx.init
Init04(viewModels) ==
  /\ baseUrl = NullString
  /\ applications = <<>>
  /\ applicationLifecyclePhases = <<>>
  /\ headerRow = <<>>
  /\ rows04 = <<>>
  /\ gridStyle = Null
  /\ initDone04 = FALSE
  /\ workspace04 \in viewModels
  /\ openedLinks04 = <<>>
  /\ facetUpdates04 = 0

\* lx.init resolves: initializeReport stores the view model and the baseUrl
\* and registers the facet with lx.ready
InitializeReport04 ==
  /\ ~initDone04
  /\ initDone04' = TRUE
  /\ applicationLifecyclePhases' = workspace04
  /\ baseUrl' = WorkspaceUrl
  /\ UNCHANGED <<applications, headerRow, rows04, gridStyle, workspace04,
                 openedLinks04, facetUpdates04>>
  /\ UNCHANGED <<vars08, vars03, vars02, vars05,
                 vars06, vars07, varsAvg>>

\* the host delivers a dataset to the callback of the facet, and the
\* watcher of applications runs computeRows
FacetCallback04(dataset) ==
  /\ initDone04
  /\ facetUpdates04 < MaxFilterChanges
  /\ facetUpdates04' = facetUpdates04 + 1
  /\ applications' = dataset
  /\ ComputeRows(dataset)
  /\ UNCHANGED <<baseUrl, applicationLifecyclePhases, initDone04,
                 workspace04, openedLinks04>>
  /\ UNCHANGED <<vars08, vars03, vars02, vars05,
                 vars06, vars07, varsAvg>>

\* the user clicks the cell j of the row i: applicationClickEvtHandler
\* opens the fact sheet of a cell that has a type
ApplicationClick(i, j) ==
  /\ i \in 1..Len(rows04)
  /\ j \in 1..Len(rows04[i])
  /\ rows04[i][j].type # NullString
  /\ Len(openedLinks04) < MaxSelections
  /\ openedLinks04' =
       Append(openedLinks04,
              [baseUrl |-> baseUrl, type |-> rows04[i][j].type,
               id |-> rows04[i][j].key.id])
  /\ UNCHANGED <<baseUrl, applications, applicationLifecyclePhases,
                 headerRow, rows04, gridStyle, initDone04, workspace04,
                 facetUpdates04>>
  /\ UNCHANGED <<vars08, vars03, vars02, vars05,
                 vars06, vars07, varsAvg>>

Next04 ==
  \/ InitializeReport04
  \/ \E dataset \in Datasets04(MaxEdges) : FacetCallback04(dataset)
  \/ \E i \in 1..Len(rows04) :
       \E j \in 1..Len(rows04[i]) : ApplicationClick(i, j)

(***************************************************************************)
(* The averages of the tutorials 02, 03 and 05, applied to one list of     *)
(* completion ratios (src/tutorial-02/src/App.vue,                         *)
(* src/tutorial-06/src/App.vue, src/tutorial-05/src/App.vue).              *)
(***************************************************************************)
\* the initial values of the refs, over one of the lists
InitAverages(lists) ==
  /\ ratios \in lists
  /\ stored = [facet |-> NullResult, graphQL |-> NullResult,
               chart |-> NullNumber, table |-> NotAvailable]
  /\ applied = {}

\* tutorial 02: the callback of the facet of type t receives the list
ApplyFacetCallback(t) ==
  /\ "facet" \notin applied
  /\ stored' = [stored EXCEPT !.facet = FacetCallback(t, ratios)]
  /\ applied' = applied \cup {"facet"}
  /\ UNCHANGED ratios
  /\ UNCHANGED <<vars08, vars03, vars02, vars05,
                 vars06, vars07, vars04>>

\* tutorial 02: fetchGraphQLData of type t receives the list as the edges
\* of its response
ApplyFetchGraphQLData(t) ==
  /\ "graphQL" \notin applied
  /\ stored' = [stored EXCEPT
                  !.graphQL = FetchGraphQLData(t, Edges02(ratios))]
  /\ applied' = applied \cup {"graphQL"}
  /\ UNCHANGED ratios
  /\ UNCHANGED <<vars08, vars03, vars02, vars05,
                 vars06, vars07, vars04>>

\* tutorial 03: the .then callback of fetchGraphQLData receives the list as
\* the edges of its response
ApplyAverageCompletion03 ==
  /\ "chart" \notin applied
  /\ stored' = [stored EXCEPT !.chart = AverageCompletion03(ratios)]
  /\ applied' = applied \cup {"chart"}
  /\ UNCHANGED ratios
  /\ UNCHANGED <<vars08, vars03, vars02, vars05,
                 vars06, vars07, vars04>>

\* tutorial 05: mapResponseToRows receives the list as the edges of the
\* response
ApplyMapResponseToRows ==
  /\ "table" \notin applied
  /\ stored' = [stored EXCEPT
                  !.table = AvgCompletion(MapRows(Response05(ratios)))]
  /\ applied' = applied \cup {"table"}
  /\ UNCHANGED ratios
  /\ UNCHANGED <<vars08, vars03, vars02, vars05,
                 vars06, vars07, vars04>>

NextAverages ==
  \/ \E t \in TypeSet : ApplyFacetCallback(t)
  \/ \E t \in TypeSet : ApplyFetchGraphQLData(t)
  \/ ApplyAverageCompletion03
  \/ ApplyMapResponseToRows

(***************************************************************************)
(* The specifications: one report is open in each.                         *)
(***************************************************************************)
\* a workspace without fact sheets
EmptyWorkspace == [t \in TypeSet |-> <<>>]

\* the workspaces hold 80 fact sheets, which fit in every page, or 250,
\* which take three pages of 100 and fit in a page of the other sizes
Spec08 ==
  /\ Init08({80, 250})
  /\ Init03({EmptyWorkspace}) /\ Init02({EmptyWorkspace}) /\ Init05({<<>>})
  /\ Init06(<<>>) /\ Init07({<<>>})
  /\ Init04({<<"active">>})
  /\ InitAverages({<<>>})
  /\ [][Next08]_vars

\* the host answers every request: lx.executeGraphQL resolves
Spec08Live ==
  /\ Spec08
  /\ WF_vars(\E req \in BagToSet(inflight) : Deliver(req))

Spec03 ==
  /\ Init03([TypeSet -> SeqUpTo(CompletionValues, MaxEdges)])
  /\ Init08({80}) /\ Init02({EmptyWorkspace}) /\ Init05({<<>>})
  /\ Init06(<<>>) /\ Init07({<<>>})
  /\ Init04({<<"active">>})
  /\ InitAverages({<<>>})
  /\ [][Next03]_vars

Spec02 ==
  /\ Init02([TypeSet -> SeqUpTo(CompletionValues, MaxEdges)])
  /\ Init08({80}) /\ Init03({EmptyWorkspace}) /\ Init05({<<>>})
  /\ Init06(<<>>) /\ Init07({<<>>})
  /\ Init04({<<"active">>})
  /\ InitAverages({<<>>})
  /\ [][Next02]_vars

Spec05 ==
  /\ Init05(SeqUpTo(CompletionValues05, MaxEdges + 1))
  /\ Init08({80}) /\ Init03({EmptyWorkspace}) /\ Init02({EmptyWorkspace})
  /\ Init06(<<>>) /\ Init07({<<>>})
  /\ Init04({<<"active">>})
  /\ InitAverages({<<>>})
  /\ [][Next05]_vars

\* the reports of tutorials 03 and 05 open side by side, each in a
\* workspace with and without fact sheets
NextSpinner == Next03 \/ Next05
SpecSpinner ==
  /\ Init03({EmptyWorkspace, [t \in TypeSet |-> <<2500>>]})
  /\ Init05({<<>>, <<504>>})
  /\ Init08({80}) /\ Init02({EmptyWorkspace})
  /\ Init06(<<>>) /\ Init07({<<>>})
  /\ Init04({<<"active">>})
  /\ InitAverages({<<>>})
  /\ [][NextSpinner]_vars

Spec06 ==
  /\ Init06(<<>>) /\ Init07({<<>>})
  /\ Init04({<<"active">>})
  /\ Init08({80}) /\ Init03({EmptyWorkspace}) /\ Init02({EmptyWorkspace})
  /\ Init05({<<>>})
  /\ InitAverages({<<>>})
  /\ [][Next06]_vars

SpecExport ==
  /\ Init06(<<>>) /\ Init07({<<>>})
  /\ Init04({<<"active">>})
  /\ Init08({80}) /\ Init03({EmptyWorkspace}) /\ Init02({EmptyWorkspace})
  /\ Init05({<<>>})
  /\ InitAverages({<<>>})
  /\ [][NextExport]_vars

Spec07 ==
  /\ Init07(SeqUpTo(ITComponentKinds, MaxEdges))
  /\ Init08({80}) /\ Init03({EmptyWorkspace}) /\ Init02({EmptyWorkspace})
  /\ Init05({<<>>}) /\ Init06(<<>>)
  /\ Init04({<<"active">>})
  /\ InitAverages({<<>>})
  /\ [][Next07]_vars

Spec04 ==
  /\ Init04(LifecycleViewModels)
  /\ Init08({80}) /\ Init03({EmptyWorkspace}) /\ Init02({EmptyWorkspace})
  /\ Init05({<<>>}) /\ Init06(<<>>) /\ Init07({<<>>})
  /\ InitAverages({<<>>})
  /\ [][Next04]_vars

SpecAverages ==
  /\ InitAverages(SeqUpTo(CompletionValues05, MaxEdges))
  /\ Init08({80}) /\ Init03({EmptyWorkspace}) /\ Init02({EmptyWorkspace})
  /\ Init05({<<>>}) /\ Init06(<<>>) /\ Init07({<<>>})
  /\ Init04({<<"active">>})
  /\ [][NextAverages]_vars

(***************************************************************************)
(* Claims about tutorial 08.                                               *)
(***************************************************************************)
\* a request issued before the most recent reset
Stale(req) == req.epoch < resets

\* C1: when the response to a page request issued before the most recent
\* reset arrives, fetchPage changes none of endCursor, totalFactSheetCount,
\* downloadedFactSheetCount, completionRatio, timeToFirstResults,
\* totalDownloadingTime, factSheetsPerSecond, t0 and the timer.
C1_StaleResponseDiscarded ==
  [][\A req \in BagToSet(inflight) :
       (Stale(req) /\ Deliver(req)) => UNCHANGED stats08]_vars

\* C2: whenever the response applied last had hasNextPage = false, the
\* number of downloaded fact sheets equals the total reported by the host.
C2_LastPageComplete ==
  lastApplied = "last" => downloadedFactSheetCount = totalFactSheetCount

\* C3: at most one GraphQL page request is outstanding at any time.
C3_SingleOutstandingRequest == BagCardinality(inflight) <= 1

\* C13: every change of pageSize leaves endCursor, totalFactSheetCount,
\* downloadedFactSheetCount, completionRatio, timeToFirstResults,
\* totalDownloadingTime, factSheetsPerSecond and t0 null and no interval
\* timer active, and issues a request of the new run for the first page
\* (after = null) with the new page size.
C13_ResetToDefaults ==
  [][\A p \in pageSizes :
       ChangePageSize(p) =>
         /\ endCursor' = Null
         /\ totalFactSheetCount' = Null
         /\ downloadedFactSheetCount' = Null
         /\ completionRatio' = Null
         /\ timeToFirstResults' = Null
         /\ totalDownloadingTime' = Null
         /\ factSheetsPerSecond' = Null
         /\ t0' = Null
         /\ activeTimers' = {}
         /\ \E req \in BagToSet(inflight') :
              /\ req.first = p
              /\ req.after = Null
              /\ req.epoch = resets']_vars

\* a reset has run after the first page of a download of several pages had
\* started the timer, and no response has been applied since
C13_Witness ==
  /\ resets >= 1
  /\ lastApplied = "none"
  /\ timerSeq >= 1
  /\ datasetSize > 100
  /\ \E req \in BagToSet(inflight) : req.epoch < resets /\ req.after # Null

\* C15: every page request carries a first that does not exceed the
\* maximum page size of 15000.
C15_FirstWithinMaximum ==
  \A req \in BagToSet(inflight) : req.first <= MaxPageSize

\* a request for a page of the maximum size is in flight
C15_Witness ==
  \E req \in BagToSet(inflight) : req.first = MaxPageSize

\* C16: when the host answers every request, then once the user has stopped
\* changing pageSize the download finishes: from some point on the response
\* applied last is one with hasNextPage = false and no request is in flight.
C16_DownloadFinishes ==
  <>[](lastApplied = "last" /\ BagCardinality(inflight) = 0)

\* the user has changed the page size during a download of several pages,
\* and the download has finished with a second page
C16_Witness ==
  /\ resets >= 1
  /\ datasetSize > 100
  /\ endCursor = 100
  /\ lastApplied = "last"
  /\ BagCardinality(inflight) = 0

\* C17: every applied page continues where the pages applied before it in
\* the same run ended: its request starts after as many fact sheets as
\* have been downloaded so far, so no range is applied twice or skipped.
C17_PagesContiguous ==
  [][\A req \in BagToSet(inflight) :
       (Deliver(req) /\ ~Discarded(req)) =>
          NullToZero(req.after) = NullToZero(downloadedFactSheetCount)]_vars

\* C18: whenever totalFactSheetCount is non-null, downloadedFactSheetCount
\* does not exceed it.
C18_DownloadedWithinTotal ==
  totalFactSheetCount # Null =>
     NullToZero(downloadedFactSheetCount) <= totalFactSheetCount

\* C19: at most one interval timer is active; none is active after a reset
\* until a first page is applied, nor once the last page of the run has
\* been applied, until the next reset.
C19_NoTimerLeak ==
  /\ [](Cardinality(activeTimers) <= 1)
  /\ [](lastApplied \in {"none", "last"} => activeTimers = {})
  /\ [][(lastApplied = "last" /\ resets' = resets) =>
          activeTimers' = {}]_vars

(***************************************************************************)
(* Claims about tutorial 03.                                               *)
(***************************************************************************)
\* the sum of the integers of the sequence s
RECURSIVE SumOf(_)
SumOf(s) == IF s = <<>> THEN 0 ELSE Head(s) + SumOf(Tail(s))

\* the number x equals the quotient a / b of integers a >= 0, b > 0
IsQuotient(x, a, b) == x.kind = "number" /\ x.den > 0 /\ x.num * b = a * x.den

\* C4: once every query in flight has completed (none of them having
\* failed), averageCompletion is the average of the fact sheet type selected
\* now.
C4_AverageOfSelectedType ==
  (inflight03 = EmptyBag /\ lastEdges03 # NoEdges /\ rejected03 = 0) =>
     LET edges == workspace03[selectedFactSheetType]
     IN  IF edges = <<>> THEN averageCompletion.kind = "NaN"
         ELSE IsQuotient(averageCompletion, SumOf(edges), Len(edges) * Scale)

\* C8: for every non-empty query result, the averageCompletion stored by
\* fetchGraphQLData is the sum of the completion ratios of the returned
\* edges divided by the number of edges.
C8_AverageIsSumOverCount ==
  (lastEdges03 # NoEdges /\ lastEdges03 # <<>>) =>
     IsQuotient(averageCompletion, SumOf(lastEdges03), Len(lastEdges03) * Scale)

\* a response with two edges of different completion ratios has been stored
C8_Witness ==
  /\ lastEdges03 # NoEdges
  /\ Len(lastEdges03) = 2
  /\ lastEdges03[1] # lastEdges03[2]
  /\ averageCompletion.kind = "number"
  /\ averageCompletion.num > 0

\* C27: the chart is constructed exactly once, when averageCompletion is
\* updated for the first time, and every later update changes that same
\* Chart; once the chart exists its single dataset holds two data points,
\* averageCompletion and 1 - averageCompletion.
C27_ChartCreatedOnce ==
  /\ [](chartsCreated03 <= 1)
  /\ []((chart = <<>>) <=> (averageCompletion = NullNumber))
  /\ [](chart # <<>> =>
          /\ chartsCreated03 = 1
          /\ Len(chart[1].datasets) = 1
          /\ LET data == chart[1].datasets[1].data
             IN  /\ Len(data) = 2
                 /\ data[1] = averageCompletion
                 /\ data[1].kind = "NaN" => data[2].kind = "NaN"
                 /\ data[1].kind = "number" =>
                      /\ data[2].kind = "number"
                      /\ data[1].num * data[2].den + data[2].num * data[1].den
                           = data[1].den * data[2].den)
  /\ [][chart # <<>> => (chart' # <<>> /\ chart'[1].id = chart[1].id)]_vars

\* the responses of two queries with different averages have been stored,
\* the second one in the chart the first one had created
C27_Witness ==
  /\ chart # <<>>
  /\ shown03 = 2
  /\ hidden03 = 2
  /\ rejected03 = 0
  /\ AverageCompletion03(workspace03["Application"])
       # AverageCompletion03(workspace03["ITComponent"])
  /\ chart[1].datasets[1].data[1].kind = "number"
  /\ chart[1].datasets[1].data[1].num > 0

(***************************************************************************)
(* Claims about tutorial 02.                                               *)
(***************************************************************************)
\* C5: after all queries in flight have completed (none of them having
\* failed), graphQLResultIndex[T] is the result computed for the filter
\* applied last to the facet of T, for every type T whose facet has been
\* filtered.
C5_ResultOfLatestFilter ==
  (inflight02 = EmptyBag /\ rejected02 = 0) =>
     \A t \in TypeSet :
        graphQLInput02[t] # NoList =>
          graphQLResultIndex[t] =
            FetchGraphQLData(t, Edges02(Filtered02(t, hostFilter02[t])))

\* r is the ratio a / b as a percentage with the given number of decimals:
\* r.units / 10^digits is a multiple of 10^-digits nearest to 100 * a / b
\* (either one of two nearest: the doubles of the code lie beside the
\* ratio); NaN when b is 0
IsPercent(r, a, b, digits) ==
  IF b = 0 THEN r.kind = "NaN"
  ELSE /\ r.kind = "number"
       /\ r.digits = digits
       /\ 2 * (r.units * b - 100 * Pow(10, digits) * a) <= b
       /\ 2 * (r.units * b - 100 * Pow(10, digits) * a) >= -b

\* C6: for the same list of fact sheets of a type T, the facet callback and
\* fetchGraphQLData produce identical records: the same label, the list
\* length as factSheetCount, and as averageCompletion the sum of the
\* completion ratios divided by the count, as a percentage with two decimals.
C6_FacetEqualsGraphQL ==
  \A t \in TypeSet :
     (facetInput02[t] # NoList /\ facetInput02[t] = graphQLInput02[t]) =>
        /\ facetResultIndex[t] = graphQLResultIndex[t]
        /\ facetResultIndex[t].label = <<t, "plural">>
        /\ facetResultIndex[t].factSheetCount = Len(facetInput02[t])
        /\ IsPercent(facetResultIndex[t].averageCompletion,
                     SumOf(facetInput02[t]), Len(facetInput02[t]) * Scale, 2)

\* both columns hold the record of the same list of two fact sheets whose
\* average percentage has more than two decimals
C6_Witness ==
  \E t \in TypeSet :
     /\ facetInput02[t] # NoList
     /\ facetInput02[t] = graphQLInput02[t]
     /\ Len(facetInput02[t]) = 2
     /\ SumOf(facetInput02[t]) % 2 = 1
     /\ graphQLResultIndex[t].averageCompletion.kind = "number"

(***************************************************************************)
(* Claims about tutorial 05.                                               *)
(***************************************************************************)
\* C7: after mapResponseToRows, avgCompletion is the average completion
\* ratio of all applications returned by the query: the sum over every edge
\* of the response divided by the number of edges, as a percentage with one
\* decimal.
C7_AverageOfAllApplications ==
  (response # NullResponse /\ WellFormed(response[1])) =>
     LET edges == response[1].allFactSheets.edges
         completions == [i \in 1..Len(edges) |->
                           edges[i].node.completion.completion]
     IN  IsPercent(avgCompletion, SumOf(completions), Len(edges) * Scale, 1)

\* C9: after mapResponseToRows, rows holds exactly the applications of the
\* response whose completion ratio is strictly below 0.1, in response order,
\* each with its name, its formatted completion and its raw completionValue.
C9_RowsBelowThreshold ==
  (response # NullResponse /\ WellFormed(response[1])) =>
     LET edges == response[1].allFactSheets.edges
         below == {i \in 1..Len(edges) :
                     10 * edges[i].node.completion.completion < Scale}
     IN  /\ Len(rows) = Cardinality(below)
         /\ \A k \in 1..Len(rows) :
               /\ rows[k].name \in below
               /\ rows[k].completionValue =
                    edges[rows[k].name].node.completion.completion
               /\ IsPercent(rows[k].completion, rows[k].completionValue, Scale, 1)
               /\ DOMAIN rows[k] = {"name", "completion", "completionValue"}
         /\ \A j, k \in 1..Len(rows) : j < k => rows[j].name < rows[k].name

\* the response holds applications on both sides of the threshold, one of
\* them exactly at 10%, and a row whose percentage is rounded up
C9_Witness ==
  /\ response # NullResponse
  /\ WellFormed(response[1])
  /\ Len(rows) >= 1
  /\ Len(rows) < Len(response[1].allFactSheets.edges)
  /\ \E i \in 1..Len(workspace05) : workspace05[i] = CompletionThreshold
  /\ \E k \in 1..Len(rows) :
        rows[k].completion.units * Scale > rows[k].completionValue * 1000

\* C21: in tutorials 03 and 05, every execution of fetchGraphQLData calls
\* lx.showSpinner once and lx.hideSpinner once when its query has resolved,
\* rejected or its mapping has thrown: the calls of hideSpinner never
\* exceed those of showSpinner, and they fall short by exactly the number of
\* fetches in progress.
C21_SpinnerBalanced ==
  /\ hidden03 <= shown03
  /\ shown03 - hidden03 = BagCardinality(inflight03)
  /\ hidden05 <= shown05
  /\ shown05 - hidden05 = (IF pending05 THEN 1 ELSE 0)

\* tutorial 03 has finished three fetches, one of them failed, and the
\* mapping of tutorial 05 has thrown
C21_Witness ==
  /\ shown03 >= 3
  /\ rejected03 >= 1
  /\ rejected03 < hidden03
  /\ BagCardinality(inflight03) = 0
  /\ ~pending05
  /\ response # NullResponse
  /\ ~WellFormed(response[1])

\* C23: an empty result set raises no error in the averages of the
\* tutorials 02, 03 and 05: over an empty list of fact sheets (in tutorial
\* 05, when no row passes the filter) each computation divides 0 by 0 and
\* stores the resulting value, NaN, in place of the initial value of its
\* ref.
C23_EmptyListStoresNaN ==
  /\ ("facet" \in applied /\ ratios = <<>>) =>
       /\ stored.facet # NullResult
       /\ stored.facet.factSheetCount = 0
       /\ stored.facet.averageCompletion.kind = "NaN"
  /\ ("graphQL" \in applied /\ ratios = <<>>) =>
       /\ stored.graphQL # NullResult
       /\ stored.graphQL.factSheetCount = 0
       /\ stored.graphQL.averageCompletion.kind = "NaN"
  /\ ("chart" \in applied /\ ratios = <<>>) =>
       /\ stored.chart # NullNumber
       /\ stored.chart.kind = "NaN"
  /\ ("table" \in applied /\ MapRows(Response05(ratios)) = <<>>) =>
       /\ stored.table # NotAvailable
       /\ stored.table.kind = "NaN"

\* the four computations have run over the empty list
C23_Witness ==
  /\ ratios = <<>>
  /\ applied = {"facet", "graphQL", "chart", "table"}
  /\ stored.table.kind = "NaN"

(***************************************************************************)
(* Claims about tutorial 06.                                               *)
(***************************************************************************)
\* the key/value content of an object: the function from its keys to their
\* values
KeyValues(object) ==
  [key \in {object[i].key : i \in 1..Len(object)} |->
     object[IndexOfKey(object, key, 1)].value]

\* C10: saving the canvas with saveFile and then loading the saved file
\* with onFileChange restores businessModelCanvasContent to the key/value
\* content it had when saved, also after edits made between save and load.
C10_SaveLoadRoundTrip ==
  restored06 # <<>> =>
     KeyValues(businessModelCanvasContent) = KeyValues(restored06[1])

\* a saved file with an empty field and a field that holds a quote and a
\* backslash has been loaded after the content had been edited to
\* something else
C10_Witness ==
  /\ restored06 # <<>>
  /\ Len(restored06[1]) = 2
  /\ \E i \in 1..2 : restored06[1][i].value = <<"\"", "\\", "n">>
  /\ \E i \in 1..2 : restored06[1][i].value = <<>>
  /\ savedFile06 # <<>>
  /\ savedFile06[1].content # businessModelCanvasContent

\* C11: after a successful load, a field key that is absent from the
\* loaded file has no value in businessModelCanvasContent, whatever it held
\* before the load.
C11_LoadReplaces ==
  restored06 # <<>> =>
     \A i \in 1..Len(FieldKeys) :
        IndexOfKey(restored06[1], FieldKeys[i], 1) = 0 =>
           IndexOfKey(businessModelCanvasContent, FieldKeys[i], 1) = 0

\* a file with one field has been loaded over a content that held both
\* fields: that content was saved after the file had been selected
C11_Witness ==
  /\ restored06 # <<>>
  /\ Len(restored06[1]) = 1
  /\ savedFile06 # <<>>
  /\ Len(savedFile06[1].content) = 2
  /\ Len(businessModelCanvasContent) = 1

\* C22: an import without a selected file, and an import of a file that is
\* not valid JSON, leave businessModelCanvasContent exactly as it was.
C22_FailedImportKeepsContent ==
  [][/\ OnFileChangeNoFile => UNCHANGED businessModelCanvasContent
     /\ \A file \in BagToSet(readers06) :
          (ReaderOnLoad(file) /\ ~Parse(file.text).ok) =>
           UNCHANGED businessModelCanvasContent]_vars

\* JSON.parse has thrown on the file loaded last while the canvas held
\* both fields, one of them not empty
C22_Witness ==
  /\ loadError06
  /\ Len(businessModelCanvasContent) = 2
  /\ \E i \in 1..2 : businessModelCanvasContent[i].value # <<>>

\* C28: exportToPPT adds to the slide, for every field of the canvas and
\* in the order of the fields, three elements: the container with addShape
\* and without text, then the label and the content with addText, the
\* content also when the field is empty; the fields of the canvas yield as
\* many shapes and twice as many text boxes.
C28_ThreeElementsPerField ==
  slide06 # <<>> =>
     LET elements == slide06[1]
         N == Len(FieldKeys)
     IN  /\ Len(elements) = 3 * N
         /\ \A i \in 1..N :
               /\ elements[3 * i - 2].call = "addShape"
               /\ elements[3 * i - 2].text = <<>>
               /\ elements[3 * i - 2].opts.bbox = <<"field", FieldKeys[i]>>
               /\ elements[3 * i - 1].call = "addText"
               /\ elements[3 * i - 1].text = <<<<FieldLabels[i]>>>>
               /\ elements[3 * i - 1].opts.bbox = <<"field-label", FieldKeys[i]>>
               /\ elements[3 * i].call = "addText"
               /\ Len(elements[3 * i].text) = 1
               /\ elements[3 * i].opts.bbox = <<"field-content", FieldKeys[i]>>
         /\ Cardinality({k \in 1..Len(elements) :
                           elements[k].call = "addShape"}) = N
         /\ Cardinality({k \in 1..Len(elements) :
                           elements[k].call = "addText"}) = 2 * N

\* a canvas with an empty first field and a filled second field has been
\* exported
C28_Witness ==
  /\ slide06 # <<>>
  /\ Len(slide06[1]) = 6
  /\ slide06[1][3].text = <<<<>>>>
  /\ slide06[1][6].text = <<<<"\"", "\\", "n">>>>

(***************************************************************************)
(* Claims about tutorial 07.                                               *)
(***************************************************************************)
\* the IT component has a lifecycle with an endOfLife phase whose start
\* date is a day of the range from..to, both ends included
EndOfLifeWithin(itComponent, from, to) ==
  /\ itComponent.lifecycle # <<>>
  /\ \E i \in 1..Len(itComponent.lifecycle[1]) :
       LET phase == itComponent.lifecycle[1][i]
       IN  /\ phase.phase = "endOfLife"
           /\ phase.startDate # Null
           /\ from <= phase.startDate
           /\ phase.startDate <= to

\* C12: after computeObsolescencies has run for a range of two dates, an IT
\* component of itComponents is in obsoleteITComponents if and only if it
\* has a lifecycle with an endOfLife phase whose start date lies within the
\* range, the start date and the end date of the range included.
C12_ObsoleteIffWithinRange ==
  (lastRun07 \in {"done", "CanvasInUse"}
     /\ startDate # NoDate /\ endDate # NoDate) =>
     \A i \in 1..Len(itComponents) :
        (\E j \in 1..Len(obsoleteITComponents) :
            obsoleteITComponents[j].id = itComponents[i].id)
          <=> EndOfLifeWithin(itComponents[i], startDate, endDate)

\* C20: computeObsolescencies never runs while reportSetup is null.
C20_SetupBeforeCompute == lastRun07 # "TypeError"

\* C24: in every state after lx.init has resolved, obsoleteITComponents is
\* the obsolescence filter applied to the current itComponents with the
\* current startDate and endDate, sorted by ascending obsolescence date.
C24_ObsoleteFollowsInputs ==
  reportSetup = ReportSetup =>
     LET reduced == ReduceObsolete(itComponents, Len(itComponents),
                                   startDate, endDate)
     IN  obsoleteITComponents = SortByDate(reduced, Len(reduced))

\* C25: the bars of the chart are a partition of obsoleteITComponents by
\* category key: the keys of the bars are distinct, every obsolete component
\* has the key of a bar, the count of a bar is the number of obsolete
\* components of its key and is at least 1, the bar of the key null is
\* labelled 'Not defined', and the counts sum to the number of obsolete
\* components.
C25_BarsPartitionObsolete ==
  LET bars == barChartData
      obsolete == obsoleteITComponents
  IN  /\ \A i, j \in 1..Len(bars) : bars[i].key = bars[j].key => i = j
      /\ \A k \in 1..Len(obsolete) :
            \E i \in 1..Len(bars) : bars[i].key = obsolete[k].category.key
      /\ \A i \in 1..Len(bars) :
            /\ bars[i].count >= 1
            /\ bars[i].count =
                 Cardinality({k \in 1..Len(obsolete) :
                                obsolete[k].category.key = bars[i].key})
            /\ bars[i].key = NullCategory => bars[i].label = "Not defined"
      /\ ReduceSum([i \in 1..Len(bars) |-> bars[i].count], Len(bars), 0)
           = Len(obsolete)

\* a chart of two bars, one of them the bar of the components without
\* category
C25_Witness ==
  /\ lastRun07 = "done"
  /\ Len(barChartData) = 2
  /\ Len(obsoleteITComponents) = 2
  /\ \E i \in 1..2 : /\ barChartData[i].key = NullCategory
                     /\ barChartData[i].label = "Not defined"

\* C26: at most one Chart instance is attached to the barChart canvas, in
\* every state, after any number of recomputations.
C26_AtMostOneChart == charts07 <= 1

\* generateBarChart has called new Chart on the canvas that holds the Chart
\* of an earlier run, for a list of obsolete components that has changed
C26_Witness ==
  /\ lastRun07 = "CanvasInUse"
  /\ charts07 = 1
  /\ dateEdits07 >= 1
  /\ obsoleteITComponents # <<>>

(***************************************************************************)
(* Claims about tutorial 04.                                               *)
(***************************************************************************)
\* C14: after computeRows, headerRow has 1 + P cells and every row of the
\* matrix has 1 + P cells, P being the number of keys of
\* applicationLifecyclePhases; the matrix has one row per application of
\* the latest facet dataset, in the same order, with or without a lifecycle.
C14_MatrixShape ==
  facetUpdates04 >= 1 =>
     LET P == Len(applicationLifecyclePhases)
     IN  /\ Len(headerRow) = 1 + P
         /\ Len(rows04) = Len(applications)
         /\ \A i \in 1..Len(rows04) :
              /\ Len(rows04[i]) = 1 + P
              /\ rows04[i][1].key.id = applications[i].id
              /\ rows04[i][1].label = applications[i].name

====
